---- MODULE Spec2Model ----
(***************************************************************************)
(* The voice engine FMAudioCore (SoundSphere Audio Engine v9.0) as a state *)
(* machine: the live-voice registry, voice stealing, release and cleanup   *)
(* of voices, the idle auto-suspend timer, recording, and initialisation.  *)
(*                                                                         *)
(* A handler is an operator from the engine's fields (a record) to the     *)
(* engine's fields, so that a handler that calls other handlers is the     *)
(* composition of their effects; an action commits one whole call.         *)
(*                                                                         *)
(* Time: what the code schedules (a timer's delay, the offset at which an  *)
(* oscillator stops) is kept as data, in microseconds for audio events and *)
(* milliseconds for timers.  The passing of time is a separate event per   *)
(* pending timer or scheduled audio event, in the order the scheduled      *)
(* offsets of one voice fix; a timer may fire at any instant after it was  *)
(* set.                                                                    *)
(***************************************************************************)
EXTENDS Integers, Sequences, FiniteSets

\* ---------------------------------------------------------------- bounds
\* Frequencies a caller may pass in the general specification.
NumFreqs == 2
\* Frequencies a caller may pass in the polyphony specification.
NumPolyFreqs == 7
\* of which the lowest are held as a chord
NumHeldKeys == 5
\* Released voices (distinct release profiles) tracked until their cleanup.
MaxReleased == 3
\* startRecording calls that may be suspended at an await at the same time.
MaxStartCalls == 1
\* Cap of currentVoiceCount (it grows without limit when playNote throws).
MaxVoiceCount == 8

\* ------------------------------------------------------- program constants
STEAL_COOLDOWN == 50
AUTO_SUSPEND_DELAY == 2500
CLEANUP_DELAY_US == 150000
RECORDING_STOP_DELAY == 100
MIN_RELEASE_TIME_US == 15000
IMMEDIATE_RELEASE_US == 10000
MAX_RELEASE_US == 300000
OSC_STOP_PAD_US == 20000
STOP_ALL_CLEANUP_PAD_US == 100000
DESKTOP_POLYPHONY == 24
MOBILE_POLYPHONY == 12
LOW_POWER_POLYPHONY == 6
RESTORED_DESKTOP_POLYPHONY == 20

NoTimer == 0 - 1

Freqs == 1..NumFreqs
PolyFreqs == 1..NumPolyFreqs

\* InstrumentPreset: the two fields of a preset the registry logic reads,
\* sustainMode and physics.releaseTime (in microseconds).
Presets ==
  { [sustainMode |-> "PERCUSSIVE", releaseTime |-> 100000],
    [sustainMode |-> "NATURAL",    releaseTime |-> 500000] }
PolyPresets == { [sustainMode |-> "NATURAL", releaseTime |-> 10000] }

\* Where the body of init may throw; "none": it does not.
InitSteps == {"context", "masterGain", "graph", "none"}
CtxStates == {"running", "suspended"}

VARIABLES
  isMobileDevice,        \* detectMobileDevice() at construction
  ctx,                   \* "null", or the AudioContext's state
  masterGain,            \* this.masterGain !== null
  mediaDest,             \* this.mediaDest !== null
  activeVoices,          \* Map<freq, [voice]> in insertion order
  currentVoiceCount,
  maxPolyphony,
  isLowPowerMode,
  sinceLastSteal,        \* performance.now() - lastStealTime, in ms, capped
  autoSuspendTimeout,    \* the handle field is non-null
  suspendTimers,         \* the platform's pending idle timers (their delays)
  isRecording,
  isMidiPlaybackActive,
  mediaRecorder,         \* "null", "inactive", "recording"
  startCalls,            \* startRecording calls suspended at an await
  released,              \* voices released and not yet fully cleaned up
  cleanupScheduled,
  cleanupPhase,          \* "idle", "raf" (frame callback pending), "timeout"
  softModeEnabled,
  softModeFilter,        \* << >>: null; << f >>: the low-pass filter's cutoff
  lastOp,                \* the last call or event and what it did
  input,                 \* the argument a codec or transcriber call was given
  call                   \* the locals of that call and its position

vars == << isMobileDevice, ctx, masterGain, mediaDest, activeVoices,
           currentVoiceCount, maxPolyphony, isLowPowerMode, sinceLastSteal,
           autoSuspendTimeout, suspendTimers, isRecording,
           isMidiPlaybackActive, mediaRecorder, startCalls, released,
           cleanupScheduled, cleanupPhase, softModeEnabled, softModeFilter,
           lastOp, input, call >>

\* No codec or transcriber call is running.
NoCall == [fn |-> "none", pc |-> "none"]

Eng ==
  [ isMobileDevice |-> isMobileDevice, ctx |-> ctx, masterGain |-> masterGain,
    mediaDest |-> mediaDest, activeVoices |-> activeVoices,
    currentVoiceCount |-> currentVoiceCount, maxPolyphony |-> maxPolyphony,
    isLowPowerMode |-> isLowPowerMode, sinceLastSteal |-> sinceLastSteal,
    autoSuspendTimeout |-> autoSuspendTimeout, suspendTimers |-> suspendTimers,
    isRecording |-> isRecording, isMidiPlaybackActive |-> isMidiPlaybackActive,
    mediaRecorder |-> mediaRecorder, startCalls |-> startCalls,
    released |-> released, cleanupScheduled |-> cleanupScheduled,
    cleanupPhase |-> cleanupPhase, softModeEnabled |-> softModeEnabled,
    softModeFilter |-> softModeFilter, result |-> "ok" ]

Commit(s, op, f) ==
  /\ isMobileDevice' = s.isMobileDevice
  /\ ctx' = s.ctx
  /\ masterGain' = s.masterGain
  /\ mediaDest' = s.mediaDest
  /\ activeVoices' = s.activeVoices
  /\ currentVoiceCount' = s.currentVoiceCount
  /\ maxPolyphony' = s.maxPolyphony
  /\ isLowPowerMode' = s.isLowPowerMode
  /\ sinceLastSteal' = s.sinceLastSteal
  /\ autoSuspendTimeout' = s.autoSuspendTimeout
  /\ suspendTimers' = s.suspendTimers
  /\ isRecording' = s.isRecording
  /\ isMidiPlaybackActive' = s.isMidiPlaybackActive
  /\ mediaRecorder' = s.mediaRecorder
  /\ startCalls' = s.startCalls
  /\ released' = s.released
  /\ cleanupScheduled' = s.cleanupScheduled
  /\ cleanupPhase' = s.cleanupPhase
  /\ softModeEnabled' = s.softModeEnabled
  /\ softModeFilter' = s.softModeFilter
  /\ lastOp' = [op |-> op, result |-> s.result]
  /\ Cardinality(s.released) <= MaxReleased
  /\ Len(s.startCalls) <= MaxStartCalls
  /\ s.currentVoiceCount <= MaxVoiceCount
  /\ UNCHANGED << input, call >>

\* ------------------------------------------------------------- helpers
Max(a, b) == IF a >= b THEN a ELSE b
Min(a, b) == IF a <= b THEN a ELSE b
RemoveAt(q, i) == SubSeq(q, 1, i - 1) \o SubSeq(q, i + 1, Len(q))
LiveFreqs(av) == { av[i].freq : i \in 1..Len(av) }
VoicesAt(av, f) == SelectSeq(av, LAMBDA v : v.freq = f)
\* Variant: the registry entry is kept.
WithoutKeeping(av, f) == av
Without(av, f) == SelectSeq(av, LAMBDA v : v.freq # f)

\* ---------------------------------------------------------------- init
\* The low-pass filter's cutoff with soft mode on, and with it off.
SOFT_CUTOFF == 4000
FULL_CUTOFF == 20000

\* this.softModeFilter = createBiquadFilter(); frequency.value = 20000
createSoftModeFilter(s) == << FULL_CUTOFF >>

\* "graph": a step after the filter's creation throws.
init(s, startState, failAt) ==
  IF s.ctx # "null" THEN [s EXCEPT !.result = "initSkipped"]
  ELSE CASE failAt = "context" ->
              [s EXCEPT !.result = "initFailed"]
         [] failAt = "masterGain" ->
              [s EXCEPT !.ctx = startState, !.result = "initFailed"]
         [] failAt = "graph" ->
              [s EXCEPT !.ctx = startState, !.masterGain = TRUE,
                        !.softModeFilter = createSoftModeFilter(s),
                        !.result = "initFailed"]
         [] OTHER ->
              [s EXCEPT !.ctx = startState, !.masterGain = TRUE,
                        !.softModeFilter = createSoftModeFilter(s),
                        !.mediaDest = TRUE, !.result = "initOk"]

\* --------------------------------------------------------------- soft mode
setSoftMode(s, enabled) ==
  [s EXCEPT !.softModeEnabled = enabled,
            !.softModeFilter =
               IF @ # << >>
               THEN << IF enabled THEN SOFT_CUTOFF ELSE FULL_CUTOFF >>
               ELSE @,
            !.result = "ok"]

getSoftMode(s) == s.softModeEnabled

\* ----------------------------------------------------- idle auto-suspend
\* clearTimeout(this.autoSuspendTimeout): the handle names the timer set last.
clearAutoSuspend(s) ==
  IF s.autoSuspendTimeout /\ Len(s.suspendTimers) > 0
  THEN [s EXCEPT !.suspendTimers = SubSeq(@, 1, Len(@) - 1)]
  ELSE s

\* if (this.autoSuspendTimeout) { clearTimeout(...); ... = null; }
cancelAutoSuspend(s) ==
  IF s.autoSuspendTimeout
  THEN [clearAutoSuspend(s) EXCEPT !.autoSuspendTimeout = FALSE]
  ELSE s

scheduleAutoSuspend(s) ==
  IF s.isRecording \/ s.isMidiPlaybackActive THEN s
  ELSE [clearAutoSuspend(s) EXCEPT
          !.suspendTimers = Append(@, AUTO_SUSPEND_DELAY),
          !.autoSuspendTimeout = TRUE]

\* Variant: the callback looks at the context only.
MaySuspendAlways(s) == s.ctx = "running"

\* The check the timer's callback makes before it suspends the context.
MaySuspend(s) ==
  /\ s.currentVoiceCount = 0
  /\ ~s.isRecording
  /\ ~s.isMidiPlaybackActive
  /\ s.ctx = "running"

\* The timer's callback.
autoSuspendCallback(s) ==
  IF MaySuspend(s)
  THEN [s EXCEPT
          !.ctx = "suspended",
          !.autoSuspendTimeout = FALSE,
          !.result = "suspended"]
  ELSE [s EXCEPT !.autoSuspendTimeout = FALSE, !.result = "kept"]

\* -------------------------------------------------------------- cleanup
scheduleCleanup(s) ==
  IF s.cleanupScheduled THEN s
  ELSE [s EXCEPT !.cleanupScheduled = TRUE, !.cleanupPhase = "raf"]

\* A voice whose nodes are disconnected and whose oscillators have stopped
\* holds no resource any more.
Drop(R) == { r \in R : r.conn \/ r.phase # "stopped" }

\* Variant: the sweep leaves cleanupScheduled set.
cleanupSweepStillScheduled(s) ==
  [s EXCEPT
     !.released = Drop({ IF r.batch
                         THEN [r EXCEPT !.conn = FALSE, !.batch = FALSE]
                         ELSE r : r \in @ }),
     !.cleanupPhase = "idle",
     !.result = "swept"]

\* The sweep of the cleanup timeout: disconnect all of pendingCleanup.
cleanupSweep(s) ==
  [s EXCEPT
     !.released = Drop({ IF r.batch
                         THEN [r EXCEPT !.conn = FALSE, !.batch = FALSE]
                         ELSE r : r \in @ }),
     !.cleanupScheduled = FALSE,
     !.cleanupPhase = "idle",
     !.result = "swept"]

\* ------------------------------------------------------------- stopNote
\* Variant: the preset's release time is taken as it is.
ActualReleaseUnclamped(preset, immediate) ==
  IF immediate THEN IMMEDIATE_RELEASE_US ELSE preset.releaseTime

ActualRelease(preset, immediate) ==
  IF immediate THEN IMMEDIATE_RELEASE_US
  ELSE Max(IMMEDIATE_RELEASE_US, Min(preset.releaseTime, MAX_RELEASE_US))

\* What stopNote leaves of one voice: the fade of its gain (none when the
\* gain is already silent), the scheduled stop of its oscillators, and its
\* membership of pendingCleanup.  Offsets are from the time of the call.
ReleasedByStopNote(v, immediate, silent) ==
  [ via     |-> "stopNote",
    fadeAt  |-> IF silent THEN 0 ELSE ActualRelease(v.preset, immediate),
    stopAt  |-> ActualRelease(v.preset, immediate) + OSC_STOP_PAD_US,
    cleanAt |-> NoTimer,
    phase   |-> IF silent THEN "faded" ELSE "fading",
    conn    |-> TRUE,
    batch   |-> TRUE ]

stopNote(s, freq, immediate, silent) ==
  IF s.ctx = "null" THEN [s EXCEPT !.result = "noop"]
  ELSE IF freq \notin LiveFreqs(s.activeVoices) THEN [s EXCEPT !.result = "noop"]
  ELSE
    LET voices == VoicesAt(s.activeVoices, freq)
        s1 == scheduleCleanup(
                [s EXCEPT !.released = @ \cup
                   { ReleasedByStopNote(voices[i], immediate, silent)
                       : i \in 1..Len(voices) }])
        s2 == [s1 EXCEPT
                 !.currentVoiceCount = Max(0, @ - Len(voices)),
                 !.activeVoices = Without(@, freq),
                 !.result = "released"]
    IN IF ~s2.isMidiPlaybackActive THEN scheduleAutoSuspend(s2) ELSE s2

\* ------------------------------------------------------------- playNote
\* Variant: the most recently registered voice is taken instead.
stealNewestVoice(s, silent) ==
  IF Len(s.activeVoices) = 0 THEN s
  ELSE stopNote(s, s.activeVoices[Len(s.activeVoices)].freq, TRUE, silent)

stealOldestVoice(s, silent) ==
  IF Len(s.activeVoices) = 0 THEN s
  ELSE stopNote(s, s.activeVoices[1].freq, TRUE, silent)

\* Variant: no cooldown between steals.
StealAlways(s) == TRUE

\* now - this.lastStealTime > STEAL_COOLDOWN
StealReady(s) == s.sinceLastSteal > STEAL_COOLDOWN

playNote(s, freq, preset, silent, startState, failAt) ==
  IF s.ctx = "null"
  THEN [init(s, startState, failAt) EXCEPT
          !.result = IF @ = "initOk" THEN "initOnly" ELSE "initFailed"]
  ELSE
    LET s0 == cancelAutoSuspend([s EXCEPT !.ctx = "running"])
        atCeiling == s0.currentVoiceCount >= s0.maxPolyphony
    IN IF atCeiling /\ ~StealReady(s0)
       THEN [s0 EXCEPT !.result = "dropped"]
       ELSE
         LET s1 == IF atCeiling
                   THEN [stealOldestVoice(s0, silent) EXCEPT !.sinceLastSteal = 0]
                   ELSE s0
             retrigger == freq \in LiveFreqs(s1.activeVoices)
             s2 == stopNote(s1, freq, TRUE, silent)
             s3 == [s2 EXCEPT !.currentVoiceCount = @ + 1]
         IN IF ~s3.masterGain
            THEN [s3 EXCEPT !.result = "threw"]
            ELSE [s3 EXCEPT
                    !.activeVoices =
                       Append(@, [freq |-> freq, preset |-> preset]),
                    !.result =
                       IF atCeiling
                       THEN IF retrigger THEN "stolenRetriggered" ELSE "stolen"
                       ELSE IF retrigger THEN "retriggered" ELSE "played"]

\* --------------------------------------------------------- stopAllNotes
StopAllRelease == (MIN_RELEASE_TIME_US * 3) \div 2

ReleasedByStopAll(v, silent) ==
  [ via     |-> "stopAllNotes",
    fadeAt  |-> IF silent THEN 0 ELSE StopAllRelease,
    stopAt  |-> StopAllRelease + OSC_STOP_PAD_US,
    cleanAt |-> StopAllRelease + STOP_ALL_CLEANUP_PAD_US,
    phase   |-> IF silent THEN "faded" ELSE "fading",
    conn    |-> TRUE,
    batch   |-> FALSE ]

stopAllNotes(s, silent) ==
  IF s.ctx = "null" THEN [s EXCEPT !.result = "noop"]
  ELSE [s EXCEPT
          !.released = @ \cup { ReleasedByStopAll(s.activeVoices[i], silent)
                                  : i \in 1..Len(s.activeVoices) },
          !.activeVoices = << >>,
          !.currentVoiceCount = 0,
          !.result = "stoppedAll"]

\* The per-voice timeout of stopAllNotes: disconnect that voice.
ownCleanup(s, r) ==
  [s EXCEPT
     !.released = Drop((@ \ {r}) \cup {[r EXCEPT !.conn = FALSE]}),
     !.result = "disconnected"]

\* ------------------------------------------------------ setLowPowerMode
setLowPowerMode(s, enabled) ==
  [s EXCEPT
     !.isLowPowerMode = enabled,
     !.maxPolyphony = IF enabled THEN LOW_POWER_POLYPHONY
                      ELSE IF s.isMobileDevice THEN MOBILE_POLYPHONY
                      ELSE RESTORED_DESKTOP_POLYPHONY]

\* -------------------------------------------------- setMidiPlaybackMode
setMidiPlaybackMode(s, active) ==
  LET s1 == [s EXCEPT !.isMidiPlaybackActive = active]
  IN IF active
     THEN [cancelAutoSuspend(s1) EXCEPT
             !.ctx = IF @ = "suspended" THEN "running" ELSE @]
     ELSE scheduleAutoSuspend(s1)

resume(s) == [s EXCEPT !.ctx = IF @ = "suspended" THEN "running" ELSE @]

\* ------------------------------------------------------------ recording
MimeOutcomes == {"ok", "noFormat", "throws"}

\* new MediaRecorder(...).start(): the tail of startRecording.
recCreate(s, mime) ==
  IF mime = "ok"
  THEN [s EXCEPT !.mediaRecorder = "recording", !.result = "true"]
  ELSE [s EXCEPT !.result = "false"]

\* startRecording from the check of mediaDest on.
recFromMediaDest(s, mime) ==
  IF ~s.mediaDest
  THEN [s EXCEPT !.isRecording = FALSE, !.result = "false"]
  ELSE IF s.mediaRecorder = "recording"
  THEN [s EXCEPT !.mediaRecorder = "inactive",
                 !.startCalls = Append(@, [at |-> "stopWait",
                                           wait |-> RECORDING_STOP_DELAY]),
                 !.result = "await"]
  ELSE recCreate(s, mime)

\* startRecording from the check of the context's state on.
recFromResume(s, mime) ==
  IF s.ctx = "suspended"
  THEN [s EXCEPT !.ctx = "running",
                 !.startCalls = Append(@, [at |-> "resume", wait |-> NoTimer]),
                 !.result = "await"]
  ELSE recFromMediaDest(s, mime)

startRecording(s, mime, startState, failAt) ==
  LET s0 == cancelAutoSuspend([s EXCEPT !.isRecording = TRUE])
  IN IF s0.ctx = "null"
     THEN [init(s0, startState, failAt) EXCEPT
             !.startCalls = Append(@, [at |-> "init", wait |-> NoTimer]),
             !.result = "await"]
     ELSE recFromResume(s0, mime)

\* A suspended startRecording call runs on from its await.
startRecordingResume(s, i, mime) ==
  LET c  == s.startCalls[i]
      s0 == [s EXCEPT !.startCalls = RemoveAt(@, i)]
  IN CASE c.at = "init"     -> recFromResume(s0, mime)
       [] c.at = "resume"   -> recFromMediaDest(s0, mime)
       [] OTHER             -> recCreate(s0, mime)

stopRecording(s) ==
  LET s1 == scheduleAutoSuspend([s EXCEPT !.isRecording = FALSE])
  IN IF s1.mediaRecorder # "recording"
     THEN [s1 EXCEPT !.result = "null"]
     ELSE [s1 EXCEPT !.mediaRecorder = "inactive", !.result = "blob"]

\* -------------------------------------------------------------- actions
InitCall(startState, failAt) ==
  Commit(init(Eng, startState, failAt), "init", 0)

SetSoftMode(enabled) ==
  Commit(setSoftMode(Eng, enabled), "setSoftMode", 0)

PlayNote(f, p, silent, startState, failAt) ==
  Commit(playNote(Eng, f, p, silent, startState, failAt), "playNote", f)

StopNote(f, immediate, silent) ==
  Commit(stopNote(Eng, f, immediate, silent), "stopNote", f)

StopAllNotes(silent) ==
  Commit(stopAllNotes(Eng, silent), "stopAllNotes", 0)

SetLowPowerMode(enabled) ==
  Commit(setLowPowerMode(Eng, enabled), "setLowPowerMode", 0)

SetMidiPlaybackMode(active) ==
  Commit(setMidiPlaybackMode(Eng, active),
         IF active THEN "midiOn" ELSE "midiOff", 0)

Resume == Commit(resume(Eng), "resume", 0)

StartRecording(mime, startState, failAt) ==
  Commit(startRecording(Eng, mime, startState, failAt), "startRecording", 0)

StartRecordingResume(i, mime) ==
  /\ i \in 1..Len(startCalls)
  /\ Commit(startRecordingResume(Eng, i, mime), "startRecording", 0)

StopRecording == Commit(stopRecording(Eng), "stopRecording", 0)

\* ---------------------------------------------------- the platform's events
\* An idle timer fires.
AutoSuspendFire(i) ==
  /\ i \in 1..Len(suspendTimers)
  /\ Commit(autoSuspendCallback(
              [Eng EXCEPT !.suspendTimers = RemoveAt(@, i)]),
            "autoSuspend", 0)

\* The animation frame of scheduleCleanup: it sets the cleanup timeout.
CleanupFrame ==
  /\ cleanupPhase = "raf"
  /\ Commit([Eng EXCEPT !.cleanupPhase = "timeout", !.result = "frame"],
            "cleanupFrame", 0)

CleanupTimeout ==
  /\ cleanupPhase = "timeout"
  /\ Commit(cleanupSweep(Eng), "cleanup", 0)

\* The timeout stopAllNotes set for a voice fires.  It is set later than the
\* stop of the voice's oscillators, so it comes after it unless the audio
\* clock (ctx.currentTime) is halted.
OwnCleanup ==
  \E r \in released :
    /\ r.cleanAt # NoTimer
    /\ r.conn
    /\ r.phase = "stopped" \/ ctx # "running"
    /\ Commit(ownCleanup(Eng, r), "ownCleanup", 0)

\* ctx.currentTime reaches the end of a voice's fade.
FadeEnd ==
  \E r \in released :
    /\ ctx = "running"
    /\ r.phase = "fading"
    /\ Commit([Eng EXCEPT
                 !.released = (@ \ {r}) \cup {[r EXCEPT !.phase = "faded"]},
                 !.result = "faded"], "fadeEnd", 0)

\* ctx.currentTime reaches the scheduled stop of a voice's oscillators.
OscStop ==
  \E r \in released :
    /\ ctx = "running"
    /\ r.phase = "faded"
    /\ Commit([Eng EXCEPT
                 !.released =
                    Drop((@ \ {r}) \cup {[r EXCEPT !.phase = "stopped"]}),
                 !.result = "stopped"], "oscStop", 0)

\* performance.now() moves on: up to the cooldown, then past it.
CooldownElapse ==
  /\ sinceLastSteal <= STEAL_COOLDOWN
  /\ Commit([Eng EXCEPT
               !.sinceLastSteal = IF @ < STEAL_COOLDOWN THEN STEAL_COOLDOWN
                                  ELSE STEAL_COOLDOWN + 1,
               !.result = "time"], "cooldownElapse", 0)

\* ------------------------------------------------------- specifications
FreshEngine(mobile) ==
  /\ isMobileDevice = mobile
  /\ ctx = "null"
  /\ masterGain = FALSE
  /\ mediaDest = FALSE
  /\ activeVoices = << >>
  /\ currentVoiceCount = 0
  /\ maxPolyphony = IF mobile THEN MOBILE_POLYPHONY ELSE DESKTOP_POLYPHONY
  /\ isLowPowerMode = FALSE
  /\ sinceLastSteal = STEAL_COOLDOWN + 1
  /\ autoSuspendTimeout = FALSE
  /\ suspendTimers = << >>
  /\ isRecording = FALSE
  /\ isMidiPlaybackActive = FALSE
  /\ mediaRecorder = "null"
  /\ startCalls = << >>
  /\ released = {}
  /\ cleanupScheduled = FALSE
  /\ cleanupPhase = "idle"
  /\ softModeEnabled = FALSE
  /\ softModeFilter = << >>
  /\ lastOp = [op |-> "new", result |-> "ok"]

Fresh(mobile) ==
  /\ FreshEngine(mobile)
  /\ input = << >>
  /\ call = NoCall

\* The engine after its constructor.
Init == \E mobile \in BOOLEAN : Fresh(mobile)

\* A caller may use an engine whose context exists; one without is
\* initialised first.
Ready == ctx # "null"

\* The life of a voice: play, release, fade, stop, batched cleanup.
NextLife ==
  \/ ~Ready /\ InitCall("running", "none")
  \/ \E f \in Freqs, p \in Presets :
        Ready /\ PlayNote(f, p, FALSE, "running", "none")
  \/ \E f \in Freqs : Ready /\ StopNote(f, FALSE, FALSE)
  \/ CleanupFrame
  \/ CleanupTimeout
  \/ FadeEnd
  \/ OscStop

SpecLife == Fresh(FALSE) /\ [][NextLife]_vars

\* stopAllNotes next to the idle timer and the audio clock.
NextStopAll ==
  \/ ~Ready /\ InitCall("running", "none")
  \/ \E f \in Freqs, p \in Presets :
        Ready /\ PlayNote(f, p, FALSE, "running", "none")
  \/ \E silent \in BOOLEAN : Ready /\ StopAllNotes(silent)
  \/ \E i \in 1..2 : AutoSuspendFire(i)
  \/ CleanupFrame
  \/ CleanupTimeout
  \/ OwnCleanup
  \/ FadeEnd
  \/ OscStop

SpecStopAll == Fresh(FALSE) /\ [][NextStopAll]_vars

\* Idle suspension: voices, playback mode, recording, the idle timer.
NextIdle ==
  \/ \E st \in CtxStates : InitCall(st, "none")
  \/ \E f \in Freqs, p \in PolyPresets, st \in CtxStates :
        PlayNote(f, p, FALSE, st, "none")
  \/ \E f \in Freqs : StopNote(f, FALSE, FALSE)
  \/ StopAllNotes(FALSE)
  \/ \E active \in BOOLEAN : SetMidiPlaybackMode(active)
  \/ Resume
  \/ \E st \in CtxStates : StartRecording("ok", st, "none")
  \/ \E i \in 1..MaxStartCalls : StartRecordingResume(i, "ok")
  \/ StopRecording
  \/ \E i \in 1..2 : AutoSuspendFire(i)

Spec == Init /\ [][NextIdle]_vars

\* Polyphony: an initialised desktop engine and a keyboard of NumPolyFreqs
\* keys.  The player builds a chord on the lowest NumHeldKeys keys, pressing
\* them in ascending order and holding them, and plays and releases the
\* remaining keys freely.
Pressable(f) ==
  \/ f > NumHeldKeys
  \/ f \notin LiveFreqs(activeVoices) /\ \A g \in 1..(f - 1) : g \in LiveFreqs(activeVoices)

NextPoly ==
  \/ ~Ready /\ InitCall("running", "none")
  \/ \E f \in PolyFreqs, p \in PolyPresets :
        Ready /\ Pressable(f) /\ PlayNote(f, p, FALSE, "running", "none")
  \/ \E f \in (NumHeldKeys + 1)..NumPolyFreqs :
        Ready /\ StopNote(f, FALSE, FALSE)
  \/ Ready /\ SetLowPowerMode(TRUE)
  \/ Ready /\ CooldownElapse

SpecPoly == Fresh(FALSE) /\ [][NextPoly]_vars

\* A partially built engine: init may fail at any step of its try block.
NextInit ==
  \/ \E fa \in InitSteps : InitCall("running", fa)
  \/ \E f \in Freqs, p \in PolyPresets, fa \in InitSteps :
        PlayNote(f, p, FALSE, "running", fa)
  \/ \E f \in Freqs : StopNote(f, FALSE, FALSE)
  \/ StopAllNotes(FALSE)
  \/ \E m \in MimeOutcomes, fa \in InitSteps : StartRecording(m, "running", fa)
  \/ \E i \in 1..MaxStartCalls, m \in MimeOutcomes : StartRecordingResume(i, m)
  \/ StopRecording

SpecInit == Fresh(FALSE) /\ [][NextInit]_vars

\* init, directly or through playNote, and the soft mode switch in any order.
NextSoftMode ==
  \/ \E fa \in InitSteps : InitCall("running", fa)
  \/ \E enabled \in BOOLEAN : SetSoftMode(enabled)
  \/ \E f \in Freqs, p \in PolyPresets, fa \in InitSteps :
        PlayNote(f, p, FALSE, "running", fa)
  \/ \E f \in Freqs : StopNote(f, FALSE, FALSE)

SpecSoftMode == Fresh(FALSE) /\ [][NextSoftMode]_vars

\* Notes that are played and never stopped by the caller.  The platform's
\* events (timers, the audio clock) are not withheld for ever.
DecayEvents ==
  \/ FadeEnd
  \/ OscStop
  \/ CleanupFrame
  \/ CleanupTimeout
  \/ \E i \in 1..2 : AutoSuspendFire(i)

NextDecay ==
  \/ ~Ready /\ InitCall("running", "none")
  \/ \E f \in Freqs, p \in Presets :
        Ready /\ PlayNote(f, p, FALSE, "running", "none")
  \/ DecayEvents

SpecDecay ==
  /\ Fresh(FALSE)
  /\ [][NextDecay]_vars
  /\ WF_vars(DecayEvents)

\* The release of a voice next to the batched cleanup.  The cleanup timeout
\* runs CLEANUP_DELAY_US after the frame that follows the first stopNote of
\* a batch: a voice whose fade and oscillator stop were scheduled within
\* that delay has finished by then, one scheduled beyond it may not have.
CleanupTimeoutDue ==
  /\ \A r \in released :
        r.batch /\ r.phase # "stopped" => r.fadeAt > CLEANUP_DELAY_US
  /\ CleanupTimeout

NextRelease ==
  \/ ~Ready /\ InitCall("running", "none")
  \/ \E f \in Freqs, p \in Presets :
        Ready /\ PlayNote(f, p, FALSE, "running", "none")
  \/ \E f \in Freqs : Ready /\ StopNote(f, FALSE, FALSE)
  \/ CleanupFrame
  \/ CleanupTimeoutDue
  \/ FadeEnd
  \/ OscStop

SpecRelease == Fresh(FALSE) /\ [][NextRelease]_vars

\* The batched cleanup next to calls of stopNote.  The callbacks of
\* requestAnimationFrame and setTimeout are not withheld for ever.
NextDrain ==
  \/ ~Ready /\ InitCall("running", "none")
  \/ \E f \in Freqs, p \in PolyPresets :
        Ready /\ PlayNote(f, p, FALSE, "running", "none")
  \/ \E f \in Freqs, immediate \in BOOLEAN :
        Ready /\ StopNote(f, immediate, FALSE)
  \/ CleanupFrame
  \/ CleanupTimeout
  \/ FadeEnd
  \/ OscStop

SpecDrain ==
  /\ Fresh(FALSE)
  /\ [][NextDrain]_vars
  /\ WF_vars(CleanupFrame)
  /\ WF_vars(CleanupTimeout)

\* ================================================================ MIDI codec
\* Mp3ToMidiConverter.exportToMidiFile writes a note-event list as the bytes
\* of a Standard MIDI File; SimpleMidiParser.decodeMidi reads such bytes
\* back.  A file is a sequence of bytes 0..255; DataView offset i is element
\* i + 1.  A time or a velocity is a ratio num/den of integers: times in
\* microseconds, velocities as a fraction of full scale.  A ratio whose den
\* is 0 is the double that a division by zero leaves (NaN or an infinity).

TICKS_PER_QUARTER == 480
EXPORT_TEMPO == 500000
DEFAULT_VELOCITY == 80
DEFAULT_TEMPO == 500000
DEFAULT_BPM == 120
DEMO_BPM == 120
MIN_DECODED_DURATION_US == 50000
MICROS_PER_MINUTE == 60000000
\* what Math.round(60000000 / 0) leaves in bpm
Infinity == 2147483647

Ratio(n, d) == [num |-> n, den |-> d]

\* a + b for ratios
RatioSum(a, b) ==
  IF a.den = b.den THEN Ratio(a.num + b.num, a.den)
  ELSE Ratio(a.num * b.den + b.num * a.den, a.den * b.den)

\* a - b < 0 as a sort comparator sees it; NaN compares as equal.
RatioLess(a, b) ==
  /\ a.den # 0
  /\ b.den # 0
  /\ IF a.den = b.den THEN a.num < b.num
     ELSE a.num * b.den < b.num * a.den

\* Math.round(n / d) for d > 0: the nearest integer, a half rounding up.
RoundDiv(n, d) == (2 * n + d) \div (2 * d)

\* Array.prototype.sort with the comparator (a, b) => key(a) - key(b).  The
\* sort is stable: an element comes after the elements whose key is less
\* and after the earlier elements whose key is not greater.
SortByTime(s, Time(_)) ==
  LET Rank(i) ==
        Cardinality({ j \in 1..Len(s) :
                        \/ RatioLess(Time(s[j]), Time(s[i]))
                        \/ j < i /\ ~RatioLess(Time(s[i]), Time(s[j])) }) + 1
  IN  [k \in 1..Len(s) |-> s[CHOOSE i \in 1..Len(s) : Rank(i) = k]]

\* ------------------------------------------------------------- the encoder
\* The high groups of a variable-length quantity, continuation bit set.
RECURSIVE VarLenHigh(_)
VarLenHigh(value) ==
  IF value > 0 THEN Append(VarLenHigh(value \div 128), (value % 128) + 128)
  ELSE << >>

\* a variant that sets no continuation bit
RECURSIVE VarLenFlat(_)
VarLenFlat(value) ==
  IF value > 0 THEN Append(VarLenFlat(value \div 128), value % 128)
  ELSE << >>

writeVarLenFlat(value) ==
  LET v == IF value < 0 THEN 0 ELSE value
  IN  Append(VarLenFlat(v \div 128), v % 128)

writeVarLen(value) ==
  LET v == IF value < 0 THEN 0 ELSE value
  IN  Append(VarLenHigh(v \div 128), v % 128)

\* Math.round(noteEvent.velocity * 127) || 80
exportVelocity(velocity) ==
  LET v == RoundDiv(velocity.num * 127, velocity.den)
  IN  IF v = 0 THEN DEFAULT_VELOCITY ELSE v

\* The note-on and note-off of every event whose pitch is a MIDI pitch, in
\* the order they are pushed.
RECURSIVE midiEventsOf(_)
midiEventsOf(noteEvents) ==
  IF noteEvents = << >> THEN << >>
  ELSE LET noteEvent == Head(noteEvents)
           rest == midiEventsOf(Tail(noteEvents))
       IN  IF noteEvent.midi < 0 \/ noteEvent.midi > 127 THEN rest
           ELSE << [time |-> noteEvent.startTime, type |-> "on",
                    note |-> noteEvent.midi,
                    velocity |-> exportVelocity(noteEvent.velocity)],
                   [time |-> RatioSum(noteEvent.startTime, noteEvent.duration),
                    type |-> "off", note |-> noteEvent.midi, velocity |-> 0] >>
                \o rest

EventTime(e) == e.time

\* a variant that takes milliseconds for ticks
ticksOfMillis(time) == RoundDiv(time.num, time.den * 1000)

\* Math.round(event.time / msPerTick)
ticksOf(time) ==
  RoundDiv(time.num * TICKS_PER_QUARTER, time.den * EXPORT_TEMPO)

Uint8(x) == x % 256

\* The locals of exportToMidiFile(midiFile) at its first statement.
exportEntry(noteEvents) ==
  [fn |-> "exportToMidiFile", pc |-> "collect", noteEvents |-> noteEvents]

\* Lines 557-600: the note-ons and note-offs, sorted, and the tempo event.
exportCollect(x) ==
  [fn |-> "exportToMidiFile", pc |-> "write",
   midiEvents |-> SortByTime(midiEventsOf(x.noteEvents), EventTime),
   trackData |-> << 0, 255, 81, 3,
                    (EXPORT_TEMPO \div 65536) % 256,
                    (EXPORT_TEMPO \div 256) % 256, EXPORT_TEMPO % 256 >>,
   lastTime |-> 0]

\* Lines 604-620: one turn of the loop over the sorted events.
exportEvent(x) ==
  LET event == Head(x.midiEvents)
      ticks == ticksOf(event.time)
  IN  [x EXCEPT !.midiEvents = Tail(x.midiEvents),
                !.lastTime = ticks,
                !.trackData = x.trackData
                   \o writeVarLen(ticks - x.lastTime)
                   \o << IF event.type = "on" THEN 144 ELSE 128,
                         event.note, event.velocity >>]

\* Lines 622-644: the end of the track, the chunk headers, the bytes.
exportReturn(x) ==
  LET n == Len(x.trackData) + 4
      header == << 77, 84, 104, 100, 0, 0, 0, 6, 0, 0, 0, 1,
                   (TICKS_PER_QUARTER \div 256) % 256,
                   TICKS_PER_QUARTER % 256 >>
      trackHeader == << 77, 84, 114, 107, (n \div 16777216) % 256,
                        (n \div 65536) % 256, (n \div 256) % 256, n % 256 >>
      all == header \o trackHeader \o x.trackData \o << 0, 255, 47, 0 >>
  IN  [fn |-> "exportToMidiFile", pc |-> "returned",
       midiBytes |-> [i \in 1..(n + 22) |-> Uint8(all[i])]]

\* ------------------------------------------------------------- the decoder
\* n bytes can be read at offset i; a read elsewhere throws a RangeError.
InBuffer(data, i, n) == i >= 0 /\ i + n <= Len(data)

getUint8(data, i) == data[i + 1]
getUint16(data, i) == data[i + 1] * 256 + data[i + 2]
\* length fields of the files decoded here stay below 2^31
getUint32(data, i) ==
  ((data[i + 1] * 256 + data[i + 2]) * 256 + data[i + 3]) * 256 + data[i + 4]

\* x << 7 on a 32-bit integer: bit 24 becomes the sign.
Shl7(x) ==
  LET low == x % 16777216
      sign == (x \div 16777216) % 2
  IN  low * 128 - sign * 1073741824 - sign * 1073741824

\* Variant: one byte is read, whatever its high bit.
readVarLenOneByte(data, offset, trackEnd, value) ==
  IF ~InBuffer(data, offset, 1)
  THEN [threw |-> TRUE, value |-> 0, offset |-> offset]
  ELSE [threw |-> FALSE, value |-> getUint8(data, offset) % 128,
        offset |-> offset + 1]

\* do { byte = getUint8(offset++); value = (value << 7) | (byte & 0x7F) }
\* while (byte & 0x80 && offset < trackEnd)
RECURSIVE readVarLen(_, _, _, _)
readVarLen(data, offset, trackEnd, value) ==
  IF ~InBuffer(data, offset, 1)
  THEN [threw |-> TRUE, value |-> 0, offset |-> offset]
  ELSE LET byte == getUint8(data, offset)
           v == Shl7(value) + (byte % 128)
       IN  IF byte >= 128 /\ offset + 1 < trackEnd
           THEN readVarLen(data, offset + 1, trackEnd, v)
           ELSE [threw |-> FALSE, value |-> v, offset |-> offset + 1]

NoNotes == [n \in {} |-> 0]

\* The locals of decodeMidi(buffer) at its first statement.
decodeEntry(buffer) ==
  [fn |-> "decodeMidi", pc |-> "header", data |-> buffer, events |-> << >>,
   timeDivision |-> 0, numTracks |-> 0, formatType |-> 0,
   tempo |-> DEFAULT_TEMPO, bpm |-> DEFAULT_BPM, offset |-> 0, track |-> 0,
   trackEnd |-> 0, absoluteTick |-> 0, runningStatus |-> 0,
   activeNotes |-> NoNotes]

\* An exception inside the try block: control passes to the catch clause.
Thrown(d) == [d EXCEPT !.pc = "catch"]

\* Lines 169-193: the header chunk.
decodeHeader(d) ==
  IF ~InBuffer(d.data, 0, 4) THEN Thrown(d)
  ELSE IF SubSeq(d.data, 1, 4) # << 77, 84, 104, 100 >> THEN Thrown(d)
  ELSE IF ~InBuffer(d.data, 4, 10) THEN Thrown(d)
  ELSE [d EXCEPT !.pc = "track",
                 !.formatType = getUint16(d.data, 8),
                 !.numTracks = getUint16(d.data, 10),
                 !.timeDivision = getUint16(d.data, 12),
                 !.offset = 8 + getUint32(d.data, 4),
                 !.track = 0]

\* Lines 195-214: the loop test of the track loop and a track's header.
decodeTrack(d) ==
  IF ~(d.track < d.numTracks /\ d.offset < Len(d.data))
  THEN [d EXCEPT !.pc = "sort"]
  ELSE IF ~InBuffer(d.data, d.offset, 4) THEN Thrown(d)
  ELSE IF SubSeq(d.data, d.offset + 1, d.offset + 4) # << 77, 84, 114, 107 >>
       THEN [d EXCEPT !.pc = "sort"]
  ELSE IF ~InBuffer(d.data, d.offset + 4, 4) THEN Thrown(d)
  ELSE [d EXCEPT !.pc = "event",
                 !.offset = d.offset + 8,
                 !.trackEnd = d.offset + 8 + getUint32(d.data, d.offset + 4),
                 !.absoluteTick = 0,
                 !.runningStatus = 0,
                 !.activeNotes = NoNotes]

\* Math.max(0.05, endTime - startTime), in microseconds
decodedDuration(ticks, tempo, timeDivision) ==
  IF timeDivision = 0 THEN Ratio(ticks * tempo, 0)
  ELSE IF (ticks * tempo) \div MIN_DECODED_DURATION_US >= timeDivision
       THEN Ratio(ticks * tempo, timeDivision)
       ELSE Ratio(MIN_DECODED_DURATION_US, 1)

\* Lines 244-274: a note-on or note-off whose status has been read; offset
\* is at its first data byte.
decodeNote(d, eventType, offset, tick, status) ==
  IF ~InBuffer(d.data, offset, 2) THEN Thrown(d)
  ELSE
    LET noteNum == getUint8(d.data, offset)
        velocity == getUint8(d.data, offset + 1)
        isNoteOn == eventType = 144 /\ velocity > 0
        at == [d EXCEPT !.offset = offset + 2, !.absoluteTick = tick,
                        !.runningStatus = status]
    IN  IF isNoteOn
        THEN [at EXCEPT !.activeNotes =
                [n \in DOMAIN d.activeNotes \cup {noteNum} |->
                   IF n = noteNum
                   THEN [startTick |-> tick, velocity |-> Ratio(velocity, 127)]
                   ELSE d.activeNotes[n]]]
        ELSE IF noteNum \in DOMAIN d.activeNotes
        THEN LET noteStart == d.activeNotes[noteNum]
             IN  [at EXCEPT
                    !.events = Append(d.events,
                       [midi |-> noteNum,
                        startTime |-> Ratio(noteStart.startTick * d.tempo,
                                            d.timeDivision),
                        duration |-> decodedDuration(tick - noteStart.startTick,
                                                     d.tempo, d.timeDivision),
                        velocity |-> noteStart.velocity]),
                    !.activeNotes = [n \in DOMAIN d.activeNotes \ {noteNum} |->
                                       d.activeNotes[n]]]
        ELSE at

\* Lines 298-317: a meta event; offset is at its type byte.
decodeMeta(d, offset, tick, status) ==
  IF ~InBuffer(d.data, offset, 1) THEN Thrown(d)
  ELSE
    LET metaType == getUint8(d.data, offset)
        len == readVarLen(d.data, offset + 1, d.trackEnd, 0)
        at == [d EXCEPT !.absoluteTick = tick, !.runningStatus = status]
    IN  IF len.threw THEN Thrown(d)
        ELSE IF metaType = 81 /\ len.value = 3
        THEN IF ~InBuffer(d.data, len.offset, 3) THEN Thrown(d)
             ELSE LET tempo == (getUint8(d.data, len.offset) * 256
                                + getUint8(d.data, len.offset + 1)) * 256
                               + getUint8(d.data, len.offset + 2)
                  IN  [at EXCEPT !.tempo = tempo,
                                 !.bpm = IF tempo = 0 THEN Infinity
                                         ELSE RoundDiv(MICROS_PER_MINUTE, tempo),
                                 !.offset = len.offset + len.value]
        ELSE [at EXCEPT !.offset = len.offset + len.value]

\* Variant: the payload of a system-exclusive event is not skipped.
decodeSysExUnskipped(d, offset, tick, status) ==
  LET len == readVarLen(d.data, offset, d.trackEnd, 0)
  IN  IF len.threw THEN Thrown(d)
      ELSE [d EXCEPT !.absoluteTick = tick, !.runningStatus = status,
                     !.offset = len.offset]

\* Lines 318-327: a system-exclusive event; offset is at its length.
decodeSysEx(d, offset, tick, status) ==
  LET len == readVarLen(d.data, offset, d.trackEnd, 0)
  IN  IF len.threw THEN Thrown(d)
      ELSE [d EXCEPT !.absoluteTick = tick, !.runningStatus = status,
                     !.offset = len.offset + len.value]

\* Lines 216-336: the loop test of the event loop and one event.
decodeEvent(d) ==
  IF ~(d.offset < d.trackEnd)
  THEN [d EXCEPT !.pc = "track", !.offset = d.trackEnd, !.track = d.track + 1]
  ELSE
    LET deltaTime == readVarLen(d.data, d.offset, d.trackEnd, 0)
        tick == d.absoluteTick + deltaTime.value
    IN  IF deltaTime.threw \/ ~InBuffer(d.data, deltaTime.offset, 1)
        THEN Thrown(d)
        ELSE
          LET byte == getUint8(d.data, deltaTime.offset)
              eventByte == IF byte < 128 THEN d.runningStatus ELSE byte
              offset == IF byte < 128 THEN deltaTime.offset
                        ELSE deltaTime.offset + 1
              eventType == (eventByte \div 16) * 16
              at == [d EXCEPT !.absoluteTick = tick,
                              !.runningStatus = eventByte]
          IN  CASE eventType \in {128, 144} ->
                     decodeNote(d, eventType, offset, tick, eventByte)
                [] eventType \in {160, 176, 224} ->
                     [at EXCEPT !.offset = offset + 2]
                [] eventType \in {192, 208} ->
                     [at EXCEPT !.offset = offset + 1]
                [] eventByte = 255 ->
                     decodeMeta(d, offset, tick, eventByte)
                [] eventByte \in {240, 247} ->
                     decodeSysEx(d, offset, tick, eventByte)
                [] OTHER -> [at EXCEPT !.offset = offset]

\* getDemoSong: the opening phrase of its melody (lines 69-84), every note
\* at the velocity drawn, 0.7 + Math.random() * 0.2, in thousandths.
DemoPhrase ==
  << << 76, 500, 200 >>, << 75, 750, 200 >>, << 76, 1000, 200 >>,
     << 75, 1250, 200 >>, << 76, 1500, 200 >>, << 71, 1750, 200 >>,
     << 74, 2000, 200 >>, << 72, 2250, 200 >>, << 69, 2500, 600 >>,
     << 45, 2500, 800 >>, << 52, 2750, 800 >>, << 57, 3000, 800 >> >>

DemoVelocities == {700, 800, 899}

NoteStart(e) == e.startTime

getDemoSong(velocity) ==
  [kind |-> "demo", bpm |-> DEMO_BPM,
   events |-> SortByTime(
     [i \in 1..Len(DemoPhrase) |->
        [midi |-> DemoPhrase[i][1],
         startTime |-> Ratio(DemoPhrase[i][2] * 1000, 1),
         duration |-> Ratio(DemoPhrase[i][3] * 1000, 1),
         velocity |-> Ratio(velocity, 1000)]], NoteStart)]

\* Lines 340-363: the sort and the return of the try block.
decodeReturn(d, velocity) ==
  LET events == SortByTime(d.events, NoteStart)
  IN  [fn |-> "decodeMidi", pc |-> "returned",
       returned |-> IF events = << >> THEN getDemoSong(velocity)
                    ELSE [kind |-> "decoded", bpm |-> d.bpm,
                          events |-> events]]

\* Lines 365-373: the catch clause.
decodeCatch(d, velocity) ==
  [fn |-> "decodeMidi", pc |-> "returned", returned |-> getDemoSong(velocity)]

\* ---------------------------------------------------- actions of the codec
engineVars == << isMobileDevice, ctx, masterGain, mediaDest, activeVoices,
                 currentVoiceCount, maxPolyphony, isLowPowerMode,
                 sinceLastSteal, autoSuspendTimeout, suspendTimers,
                 isRecording, isMidiPlaybackActive, mediaRecorder, startCalls,
                 released, cleanupScheduled, cleanupPhase, softModeEnabled,
                 softModeFilter, lastOp >>

\* One step of the running call; the engine is not involved.
Step(c) ==
  /\ call' = c
  /\ UNCHANGED input
  /\ UNCHANGED engineVars

Exporting(pc) == call.fn = "exportToMidiFile" /\ call.pc = pc

ExportCollect == Exporting("collect") /\ Step(exportCollect(call))

ExportEvent ==
  /\ Exporting("write")
  /\ call.midiEvents # << >>
  /\ Step(exportEvent(call))

ExportReturn ==
  /\ Exporting("write")
  /\ call.midiEvents = << >>
  /\ Step(exportReturn(call))

\* The exported file is opened again: parse hands its bytes to decodeMidi.
Parse ==
  /\ call.fn = "exportToMidiFile"
  /\ call.pc = "returned"
  /\ Step(decodeEntry(call.midiBytes))

Decoding(pc) == call.fn = "decodeMidi" /\ call.pc = pc

DecodeHeader == Decoding("header") /\ Step(decodeHeader(call))

DecodeTrack == Decoding("track") /\ Step(decodeTrack(call))

DecodeEvent == Decoding("event") /\ Step(decodeEvent(call))

DecodeReturn ==
  /\ Decoding("sort")
  /\ \E velocity \in DemoVelocities : Step(decodeReturn(call, velocity))

DecodeCatch ==
  /\ Decoding("catch")
  /\ \E velocity \in DemoVelocities : Step(decodeCatch(call, velocity))

\* ------------------------------------------- specification: decoding files
U16(x) == << (x \div 256) % 256, x % 256 >>

MThd(formatType, numTracks, timeDivision) ==
  << 77, 84, 104, 100, 0, 0, 0, 6 >>
  \o U16(formatType) \o U16(numTracks) \o U16(timeDivision)

MTrk(trackLength, body) ==
  << 77, 84, 114, 107, 0, 0 >> \o U16(trackLength) \o body

EndOfTrack == << 0, 255, 47, 0 >>

\* Track bodies: one note; the same with the note-off under running status
\* as a note-on of velocity 0; data bytes of 0x80 and above; no note; a
\* tempo change before the note; controller, program and system-exclusive
\* events around a note; a note-off cut short; a meta event whose length
\* is 8F FF FF FF 78.
TrackBodies ==
  { << 0, 144, 60, 100, 96, 128, 60, 0 >> \o EndOfTrack,
    << 0, 144, 60, 100, 96, 60, 0 >> \o EndOfTrack,
    << 0, 144, 200, 255, 96, 128, 200, 0 >> \o EndOfTrack,
    EndOfTrack,
    << 0, 255, 81, 3, 3, 208, 144, 0, 144, 62, 64, 129, 64, 128, 62, 0 >>
      \o EndOfTrack,
    << 0, 176, 7, 100, 0, 192, 5, 0, 240, 2, 1, 2, 0, 144, 60, 1, 10, 128,
       60, 0 >> \o EndOfTrack,
    << 0, 144, 60, 100, 96, 128, 60 >>,
    << 0, 255, 1, 143, 255, 255, 255, 120 >> }

Formats == {0, 1, 3}
TrackCounts == {0, 1, 2}
TimeDivisions == {0, 480, 59176}

OneTrackFiles ==
  { MThd(f, n, t) \o MTrk(Len(body) + more, body) :
      f \in Formats, n \in TrackCounts, t \in TimeDivisions,
      body \in TrackBodies, more \in {0, 4} }

TwoTrackFiles ==
  { MThd(1, 2, 480) \o MTrk(Len(a), a) \o MTrk(Len(b), b) :
      a \in TrackBodies, b \in TrackBodies }

BrokenFiles ==
  { << >>, << 77, 84 >>, << 82, 73, 70, 70, 0, 0, 0, 6, 0, 0, 0, 1, 1, 224 >>,
    << 77, 84, 104, 100, 0, 0, 0, 6, 0, 0 >>,
    MThd(1, 2, 480) \o MTrk(12, << 0, 144, 60, 100, 96, 128, 60, 0 >>
                                  \o EndOfTrack) \o << 1, 2, 3, 4, 5 >> }

DecodeInputs == OneTrackFiles \cup TwoTrackFiles \cup BrokenFiles

InitDecode ==
  /\ FreshEngine(FALSE)
  /\ input \in DecodeInputs
  /\ call = decodeEntry(input)

NextDecode ==
  \/ DecodeHeader
  \/ DecodeTrack
  \/ DecodeEvent
  \/ DecodeReturn
  \/ DecodeCatch

\* The decoder runs on: a step that is enabled is eventually taken.
SpecDecode == InitDecode /\ [][NextDecode]_vars /\ WF_vars(NextDecode)

\* ------------------------------- specification: exporting and re-importing
\* Note events handed to the encoder, per list.
MaxNotes == 2

Micros(us) == Ratio(us, 1)

\* Two pitches, two onsets and three durations (0.02 s, 0.06 s, 0.2 s) at
\* full velocity, and events that differ from one of them in one field: a
\* pitch outside 0..127, velocities 0, 0.003 and 0.5, an onset below and
\* one above half a tick, a duration below half a tick.
CodecEvents ==
  { [midi |-> m, startTime |-> Micros(s), duration |-> Micros(d),
     velocity |-> Ratio(1, 1)] :
      m \in {60, 62}, s \in {0, 200000}, d \in {20000, 60000, 200000} }
  \cup
  { [midi |-> m, startTime |-> Micros(0), duration |-> Micros(60000),
     velocity |-> Ratio(1, 1)] : m \in {0 - 1, 128} }
  \cup
  { [midi |-> 60, startTime |-> Micros(0), duration |-> Micros(60000),
     velocity |-> v] : v \in {Ratio(0, 1), Ratio(3, 1000), Ratio(1, 2)} }
  \cup
  { [midi |-> 62, startTime |-> Micros(s), duration |-> Micros(400),
     velocity |-> Ratio(1, 1)] : s \in {500, 600} }

\* Lists of at most n events in the order of their onsets.
NoteLists(n) ==
  { L \in UNION { [1..k -> CodecEvents] : k \in 0..n } :
      \A i \in 1..(Len(L) - 1) :
        ~RatioLess(L[i + 1].startTime, L[i].startTime) }

InitCodec ==
  /\ FreshEngine(FALSE)
  /\ input \in NoteLists(MaxNotes)
  /\ call = exportEntry(input)

NextCodec ==
  \/ ExportCollect
  \/ ExportEvent
  \/ ExportReturn
  \/ Parse
  \/ DecodeHeader
  \/ DecodeTrack
  \/ DecodeEvent
  \/ DecodeReturn

SpecCodec == InitCodec /\ [][NextCodec]_vars /\ WF_vars(NextCodec)



\* ============================================================ transcriber
\* Mp3ToMidiConverter.  Times are counted in samples (SAMPLE_RATE to the
\* second), a frame's level in thousandths of full scale, a confidence in
\* hundredths, and a frequency in cents above 440 Hz (1200 * log2(f / 440)).
SAMPLE_RATE == 44100
MIN_CONFIDENCE == 50
FRAME_SIZE == 4096
HOP_SIZE == 256
FRAMES_PER_CHUNK == 100
\* The progress at the start of the frame analysis and the share it spans.
ANALYSIS_START == 20
ANALYSIS_SPAN == 70
MIN_RMS == 3
MAX_SILENCE == 5
PITCH_BUFFER_SIZE == 5
LOWEST_MIDI == 21
HIGHEST_MIDI == 108
FULL_VELOCITY == 127
FLOOR_VELOCITY == 50
A4_MIDI == 69
CENTS_PER_SEMITONE == 100
\* The lengths the segmenter and the clean-up compare with, in hundredths of
\* a second: 0.02 s, 0.03 s, 0.05 s and 0.1 s.
SILENCE_MIN_LENGTH == 2
NOTE_MIN_LENGTH == 3
CLEAN_MIN_LENGTH == 5
MERGE_GAP == 10

\* A frequency of 0 Hz lies infinitely many cents below 440 Hz.
NoFrequency == 0 - Infinity

\* samples / SAMPLE_RATE > hundredths / 100
LongerThan(samples, hundredths) == samples * 100 > hundredths * SAMPLE_RATE

\* Variant: every duration passes.
AtLeastNothing(samples, hundredths) == TRUE

\* samples / SAMPLE_RATE >= hundredths / 100
AtLeast(samples, hundredths) == samples * 100 >= hundredths * SAMPLE_RATE

\* The variant of frequencyToMidi that truncates.
frequencyToMidiFloor(frequency) ==
  (A4_MIDI * CENTS_PER_SEMITONE + frequency) \div CENTS_PER_SEMITONE

\* Math.round(69 + 12 * Math.log2(frequency / 440))
frequencyToMidi(frequency) ==
  (A4_MIDI * CENTS_PER_SEMITONE + frequency + CENTS_PER_SEMITONE \div 2)
    \div CENTS_PER_SEMITONE

\* 440 * Math.pow(2, (midi - 69) / 12)
midiToFreq(midi) == (midi - A4_MIDI) * CENTS_PER_SEMITONE

\* [...arr].sort((a, b) => a - b)
SortedNumbers(arr) ==
  LET Rank(i) == Cardinality({ j \in 1..Len(arr) :
                     \/ arr[j] < arr[i]
                     \/ arr[j] = arr[i] /\ j < i }) + 1
  IN  [k \in 1..Len(arr) |-> arr[CHOOSE i \in 1..Len(arr) : Rank(i) = k]]

getMedian(arr) ==
  IF Len(arr) = 0 THEN 0
  ELSE LET sorted == SortedNumbers(arr)
           mid == Len(sorted) \div 2
       IN  IF Len(sorted) % 2 # 0 THEN sorted[mid + 1]
           ELSE (sorted[mid] + sorted[mid + 1] + 1) \div 2

NoNote == [midiNote |-> 0 - 1, startTime |-> 0, duration |-> 0, velocity |-> 0]

\* The loop of cleanupNotes from index i on (1-based).
RECURSIVE cleanupFrom(_, _, _, _)
cleanupFrom(notes, i, current, cleaned) ==
  IF i > Len(notes)
  THEN IF AtLeast(current.duration, CLEAN_MIN_LENGTH)
       THEN Append(cleaned, current) ELSE cleaned
  ELSE LET note == notes[i]
           gap == note.startTime - (current.startTime + current.duration)
       IN  IF note.midiNote = current.midiNote
              /\ ~ AtLeast(gap, MERGE_GAP)
           THEN cleanupFrom(notes, i + 1,
                  [current EXCEPT
                     !.duration = (note.startTime + note.duration)
                                    - current.startTime,
                     !.velocity = Max(current.velocity, note.velocity)],
                  cleaned)
           ELSE cleanupFrom(notes, i + 1, note,
                  IF AtLeast(current.duration, CLEAN_MIN_LENGTH)
                  THEN Append(cleaned, current) ELSE cleaned)

cleanupNotes(notes) ==
  IF Len(notes) = 0 THEN notes
  ELSE cleanupFrom(notes, 2, notes[1], << >>)

notesToEvents(notes) ==
  [i \in 1..Len(notes) |->
     [noteName |-> << notes[i].midiNote % 12, notes[i].midiNote \div 12 - 1 >>,
      midi |-> notes[i].midiNote,
      startTime |-> Ratio(notes[i].startTime, SAMPLE_RATE),
      duration |-> Ratio(notes[i].duration, SAMPLE_RATE),
      velocity |-> Ratio(notes[i].velocity, FULL_VELOCITY)]]

\* ---------------------------------------------------------------- the file
\* An audio file is its decodability, the number of samples it decodes to
\* and, for each stretch of frames, what calculateRMS and
\* detectPitchCombined compute on a frame of the stretch.
Analysis(rms, frequency, confidence) ==
  [rms |-> rms, frequency |-> frequency, confidence |-> confidence]

Stretch(frames, analysis) == [frames |-> frames, analysis |-> analysis]

RECURSIVE FramesIn(_)
FramesIn(stretches) ==
  IF stretches = << >> THEN 0
  ELSE stretches[1].frames + FramesIn(Tail(stretches))

\* calculateRMS and detectPitchCombined of frame number frame (0-based).
FrameAnalysis(file, frame) ==
  LET s == file.stretches
      j == CHOOSE j \in 1..Len(s) :
             /\ FramesIn(SubSeq(s, 1, j - 1)) <= frame
             /\ frame < FramesIn(SubSeq(s, 1, j))
  IN  s[j].analysis

\* ------------------------------------------------------------- convert
\* A value given to onProgress, and the function that gave it.
Progress(value, by) == [value |-> value, by |-> by]

\* The progress reported while the file is read: 5 and 10 before the first
\* await.  progress holds what a caller that passes onProgress is given;
\* yields counts the calls of yieldToMainThread and sinceYield the frames
\* finished since the last of them.
convertEntry(file) ==
  [fn |-> "convert", pc |-> "decode", audioContext |-> "running",
   thrown |-> FALSE, totalFrames |-> 0, frame |-> 0, notes |-> << >>,
   currentNote |-> NoNote, lastMidiNote |-> 0 - 1, silenceCount |-> 0,
   pitchBuffer |-> << >>, events |-> << >>, bpm |-> 0,
   progress |-> << Progress(5, "convert"), Progress(10, "convert") >>,
   yields |-> 0, sinceYield |-> 0]

\* await file.arrayBuffer(), await audioContext.decodeAudioData(arrayBuffer),
\* and the locals of detectNotesChunked.
convertDecode(d, file) ==
  IF ~ file.decodable
  THEN [d EXCEPT !.pc = "finally", !.thrown = TRUE,
                 !.progress = Append(@, Progress(15, "convert"))]
  ELSE [d EXCEPT !.pc = "frame",
                 !.totalFrames = (file.length - FRAME_SIZE) \div HOP_SIZE,
                 !.progress = @ \o << Progress(15, "convert"),
                                      Progress(20, "convert") >>]

\* Variant: the loop yields before its first frame only.
yieldDueOnce(frame) == frame = 0

\* frame % this.FRAMES_PER_CHUNK === 0
yieldDue(frame) == frame % FRAMES_PER_CHUNK = 0

\* Variant: the share of the frames done by the end of the chunk.
progressPctAhead(frame, totalFrames) ==
  ANALYSIS_START
    + RoundDiv((frame + FRAMES_PER_CHUNK) * ANALYSIS_SPAN, totalFrames)

\* 20 + Math.round((frame / totalFrames) * 70)
progressPct(frame, totalFrames) ==
  ANALYSIS_START + RoundDiv(frame * ANALYSIS_SPAN, totalFrames)

\* The head of an iteration of the frame loop: the yield and the report.
chunkStart(d) ==
  IF yieldDue(d.frame)
  THEN [d EXCEPT !.yields = @ + 1, !.sinceYield = 0,
                 !.progress = Append(@, Progress(progressPct(d.frame, d.totalFrames),
                                                 "detectNotesChunked"))]
  ELSE d

\* The variant of pushNote that puts the note in front of the list.
pushNoteFront(d, time, minimum) ==
  LET ended == [d.currentNote EXCEPT !.duration = time - d.currentNote.startTime]
  IN  IF d.currentNote # NoNote /\ LongerThan(ended.duration, minimum)
      THEN << ended >> \o d.notes ELSE d.notes

\* The variant of pushNote that ends the note one hop late.
pushNoteLate(d, time, minimum) ==
  LET ended == [d.currentNote EXCEPT
                  !.duration = time + HOP_SIZE - d.currentNote.startTime]
  IN  IF d.currentNote # NoNote /\ LongerThan(ended.duration, minimum)
      THEN Append(d.notes, ended) ELSE d.notes

\* The end of a note at time: it is kept when longer than the minimum.
pushNote(d, time, minimum) ==
  LET ended == [d.currentNote EXCEPT !.duration = time - d.currentNote.startTime]
  IN  IF d.currentNote # NoNote /\ LongerThan(ended.duration, minimum)
      THEN Append(d.notes, ended) ELSE d.notes

\* Variant: the first silent frame ends the note.
silenceEndsAtOnce(d) == d.currentNote # NoNote

\* currentNote && silenceCount > MAX_SILENCE, after silenceCount++
silenceEnds(d) == d.currentNote # NoNote /\ d.silenceCount + 1 > MAX_SILENCE

\* Variant: no tolerance of a semitone.
noteChangedAtAll(midiNote, lastMidiNote) == midiNote # lastMidiNote

\* Math.abs(midiNote - lastMidiNote) > 1
noteChanged(midiNote, lastMidiNote) ==
  midiNote - lastMidiNote > 1 \/ lastMidiNote - midiNote > 1

\* One iteration of the frame loop of detectNotesChunked.
detectFrame(d, file) ==
  LET time == d.frame * HOP_SIZE
      a == FrameAnalysis(file, d.frame)
      next == [chunkStart(d) EXCEPT !.frame = d.frame + 1,
                                    !.sinceYield = @ + 1]
  IN  IF a.rms < MIN_RMS
      THEN IF silenceEnds(d)
           THEN [next EXCEPT !.silenceCount = d.silenceCount + 1,
                             !.notes = pushNote(d, time, SILENCE_MIN_LENGTH),
                             !.currentNote = NoNote,
                             !.lastMidiNote = 0 - 1,
                             !.pitchBuffer = << >>]
           ELSE [next EXCEPT !.silenceCount = d.silenceCount + 1]
      ELSE IF ~ (a.frequency # NoFrequency /\ a.confidence >= MIN_CONFIDENCE)
      THEN [next EXCEPT !.silenceCount = 0]
      ELSE
        LET rawMidiNote == frequencyToMidi(a.frequency)
            pushed == Append(d.pitchBuffer, rawMidiNote)
            buffer == IF Len(pushed) > PITCH_BUFFER_SIZE THEN Tail(pushed)
                      ELSE pushed
            midiNote == getMedian(buffer)
            velocity == Max(FLOOR_VELOCITY, Min(FULL_VELOCITY, 2 * a.rms))
        IN  IF ~ (midiNote >= LOWEST_MIDI /\ midiNote <= HIGHEST_MIDI)
            THEN [next EXCEPT !.silenceCount = 0, !.pitchBuffer = buffer]
            ELSE IF noteChanged(midiNote, d.lastMidiNote)
            THEN [next EXCEPT !.silenceCount = 0, !.pitchBuffer = buffer,
                    !.notes = pushNote(d, time, NOTE_MIN_LENGTH),
                    !.currentNote = [midiNote |-> midiNote, startTime |-> time,
                                     duration |-> 0, velocity |-> velocity],
                    !.lastMidiNote = midiNote]
            ELSE IF d.currentNote # NoNote
            THEN [next EXCEPT !.silenceCount = 0, !.pitchBuffer = buffer,
                    !.currentNote.velocity = Max(d.currentNote.velocity, velocity)]
            ELSE [next EXCEPT !.silenceCount = 0, !.pitchBuffer = buffer]

\* The end of detectNotesChunked (the last note, the clean-up) and the rest
\* of the try block of convert.
detectReturn(d, file) ==
  LET notes == pushNote(d, file.length, NOTE_MIN_LENGTH)
  IN  [d EXCEPT !.pc = "finally",
                !.notes = notes,
                !.events = notesToEvents(cleanupNotes(notes)),
                !.bpm = DEFAULT_BPM,
                !.progress = @ \o << Progress(95, "convert"),
                                     Progress(100, "convert") >>]

\* finally { await audioContext.close(); }
convertFinally(d) ==
  [d EXCEPT !.audioContext = "closed",
            !.pc = IF d.thrown THEN "rejected" ELSE "resolved"]

Converting(pc) == call.fn = "convert" /\ call.pc = pc

ConvertDecode == Converting("decode") /\ Step(convertDecode(call, input))

DetectFrame ==
  /\ Converting("frame")
  /\ call.frame < call.totalFrames
  /\ Step(detectFrame(call, input))

DetectReturn ==
  /\ Converting("frame")
  /\ ~ (call.frame < call.totalFrames)
  /\ Step(detectReturn(call, input))

ConvertFinally == Converting("finally") /\ Step(convertFinally(call))

\* ------------------------------------------------------------ the inputs
MaxStretches == 3

Quiet == Analysis(0, NoFrequency, 0)
Noise == Analysis(100, NoFrequency, 0)
Tone(midi, rms) == Analysis(rms, midiToFreq(midi), 95)

StretchKinds == { Quiet, Noise, Tone(60, 40), Tone(62, 10) }
StretchLengths == { 7, 20 }

AudioOf(stretches, tail) ==
  [length |-> FRAME_SIZE + HOP_SIZE * FramesIn(stretches) + tail,
   stretches |-> stretches]

Stretches(n) ==
  UNION { [1..k -> { Stretch(f, a) : f \in StretchLengths, a \in StretchKinds }]
          : k \in 1..n }

\* 440 Hz for 1.0 s, silence for 0.2 s, 880 Hz for 1.0 s at half of full
\* scale: 97020 samples, 362 frames.  Frames 0 to 170 are found at 440 Hz;
\* frames 171 and 172 end in the silence and are found unpitched and at
\* 791 Hz; frames 173 to 190 are below MIN_RMS; frame 191 holds the first 72
\* samples of the second tone and is found unpitched; every frame from 192
\* on is found at 880 Hz, by the autocorrelation of the whole frame as long
\* as the tone has not reached the part of the frame that YIN reads.
Clip ==
  [length |-> 97020,
   stretches |-> << Stretch(171, Analysis(133, 5, 62)),
                    Stretch(1, Analysis(99, 0 - 2007, 41)),
                    Stretch(1, Analysis(43, 1015, 95)),
                    Stretch(18, Quiet),
                    Stretch(1, Analysis(47, NoFrequency, 0)),
                    Stretch(170, Analysis(99, 1202, 65)) >>]

\* Signals shorter than a frame, a tone out of the range of the piano and a
\* tone a quarter tone off.
OtherAudio ==
  { [length |-> n, stretches |-> << >>] : n \in {0, 2000, 4096, 4351} }
  \cup { AudioOf(<< Stretch(20, Tone(m, 40)) >>, 0) : m \in {20, 21, 108, 109} }
  \cup { AudioOf(<< Stretch(20, Analysis(40, c, 95)), Stretch(20, Analysis(40, 0 - 850, 49)) >>, 0)
           : c \in {0 - 951, 0 - 950, 0 - 851} }

\* A tone with a gap of five silent frames, then silence; a tone with a
\* gap of seven frames silent but for the fourth; a tone that rises by a
\* semitone and grows louder, then rises by three more; a tone that comes
\* back louder after seven silent frames.
GapAudio ==
  AudioOf(<< Stretch(10, Tone(60, 40)), Stretch(5, Quiet),
             Stretch(10, Tone(60, 40)), Stretch(7, Quiet) >>, 0)
NoisyGapAudio ==
  AudioOf(<< Stretch(10, Tone(60, 40)), Stretch(3, Quiet), Stretch(1, Noise),
             Stretch(3, Quiet), Stretch(10, Tone(60, 40)) >>, 0)
StepAudio ==
  AudioOf(<< Stretch(10, Tone(60, 40)), Stretch(10, Tone(61, 60)),
             Stretch(10, Tone(64, 40)) >>, 0)

MergeAudio ==
  AudioOf(<< Stretch(20, Tone(60, 40)), Stretch(7, Quiet),
             Stretch(20, Tone(60, 60)) >>, 0)

SegmentAudio == { GapAudio, NoisyGapAudio, StepAudio, MergeAudio }

\* Tones of one frame, of a chunk of frames but one, of a chunk, of a chunk
\* and one, and of two chunks and one.
ChunkAudio ==
  { AudioOf(<< Stretch(n, Tone(60, 40)) >>, 0) :
      n \in { 1, FRAMES_PER_CHUNK - 1, FRAMES_PER_CHUNK, FRAMES_PER_CHUNK + 1,
               2 * FRAMES_PER_CHUNK + 1 } }

AudioFiles ==
  { [decodable |-> ok, length |-> a.length, stretches |-> a.stretches] :
      ok \in BOOLEAN,
      a \in { AudioOf(s, 100) : s \in Stretches(MaxStretches) }
              \cup {Clip} \cup OtherAudio \cup SegmentAudio
              \cup ChunkAudio }

InitTranscribe ==
  /\ FreshEngine(FALSE)
  /\ input \in AudioFiles
  /\ call = convertEntry(input)

NextTranscribe ==
  \/ ConvertDecode
  \/ DetectFrame
  \/ DetectReturn
  \/ ConvertFinally

SpecTranscribe == InitTranscribe /\ [][NextTranscribe]_vars

\* Signals of every length about a chunk of frames.  Every await of convert
\* settles: the file is read or the read fails, and the timer of
\* yieldToMainThread fires.
InitChunks ==
  /\ FreshEngine(FALSE)
  /\ input \in { [decodable |-> ok, length |-> a.length, stretches |-> a.stretches] :
                   ok \in BOOLEAN, a \in {Clip} \cup OtherAudio \cup ChunkAudio }
  /\ call = convertEntry(input)

SpecChunks == InitChunks /\ [][NextTranscribe]_vars /\ WF_vars(NextTranscribe)

\* ------------------------------------------------- the pitch mapping alone
MaxDetune == 50

PitchInputs == [midi : 0..127, detune : (0 - MaxDetune)..MaxDetune]

pitchEntry(p) ==
  [fn |-> "frequencyToMidi", pc |-> "entry",
   frequency |-> midiToFreq(p.midi) + p.detune]

pitchReturn(d) ==
  [fn |-> "frequencyToMidi", pc |-> "returned", frequency |-> d.frequency,
   midi |-> frequencyToMidi(d.frequency)]

FrequencyToMidi ==
  /\ call.fn = "frequencyToMidi"
  /\ call.pc = "entry"
  /\ Step(pitchReturn(call))

InitPitch ==
  /\ FreshEngine(FALSE)
  /\ input \in PitchInputs
  /\ call = pitchEntry(input)

NextPitch == FrequencyToMidi

SpecPitch == InitPitch /\ [][NextPitch]_vars



\* ------------------------------------ specification: decoding event lists
\* A track event of a file: its delta time, its status byte, the bytes that
\* follow the status, and whether the status byte is left out (running
\* status).  kind is "on", "off", "tempo" or "other".
DIVISION == TICKS_PER_QUARTER

TrackEvent(delta, kind, status, data) ==
  [delta |-> delta, kind |-> kind, status |-> status, data |-> data,
   running |-> FALSE]

NoteOn(delta, channel, note, velocity) ==
  TrackEvent(delta, "on", 144 + channel, << note, velocity >>)
NoteOff(delta, channel, note) ==
  TrackEvent(delta, "off", 128 + channel, << note, 64 >>)
NoteOnZero(delta, channel, note) ==
  TrackEvent(delta, "off", 144 + channel, << note, 0 >>)
SetTempo(delta, tempo) ==
  TrackEvent(delta, "tempo", 255,
             << 81, 3, (tempo \div 65536) % 256, (tempo \div 256) % 256,
                tempo % 256 >>)
Text(delta, length) ==
  TrackEvent(delta, "other", 255,
             << 1 >> \o writeVarLen(length) \o [i \in 1..length |-> 65])
SysEx(delta, payload) ==
  TrackEvent(delta, "other", 240, writeVarLen(Len(payload)) \o payload)
Channel(delta, status, data) == TrackEvent(delta, "other", status, data)
Running(e) == [e EXCEPT !.running = TRUE]
End == TrackEvent(0, "other", 255, << 47, 0 >>)

EventBytes(e) ==
  writeVarLen(e.delta) \o (IF e.running THEN << >> ELSE << e.status >>)
  \o e.data

RECURSIVE TrackBytes(_)
TrackBytes(evs) ==
  IF evs = << >> THEN << >>
  ELSE EventBytes(Head(evs)) \o TrackBytes(Tail(evs))

RECURSIVE ChunksOf(_)
ChunksOf(tracks) ==
  IF tracks = << >> THEN << >>
  ELSE LET body == TrackBytes(Head(tracks))
       IN  MTrk(Len(body), body) \o ChunksOf(Tail(tracks))

FileOf(tracks) ==
  MThd(IF Len(tracks) = 1 THEN 0 ELSE 1, Len(tracks), DIVISION)
  \o ChunksOf(tracks)

\* Tracks: a note; its note-off as a running-status note-on of velocity 0;
\* a note-off without a note-on, then a note-on without a note-off; a pitch
\* sounding on two channels at once; a tempo change while a note sounds; a
\* tempo change before a note; text, controller, program, pressure, bend,
\* aftertouch and system-exclusive events around a note, some under running
\* status, one with a two-byte length; a pitch struck twice in a row; a note
\* left sounding.
PlainTrack == << NoteOn(0, 0, 60, 100), NoteOff(96, 0, 60), End >>
RunningTrack ==
  << NoteOn(0, 0, 60, 100), Running(NoteOnZero(96, 0, 60)), End >>
UnmatchedTrack == << NoteOff(0, 0, 60), NoteOn(10, 0, 62, 64), End >>
OverlapTrack ==
  << NoteOn(0, 0, 60, 100), NoteOn(48, 1, 60, 80), NoteOff(48, 0, 60),
     NoteOff(48, 1, 60), End >>
RitardTrack ==
  << NoteOn(96, 0, 60, 100), SetTempo(96, 1000000), NoteOff(96, 0, 60), End >>
TempoTrack ==
  << SetTempo(0, 250000), NoteOn(0, 0, 64, 90), NoteOff(240, 0, 64), End >>
FramedTrack ==
  << Text(0, 3), Channel(0, 176, << 7, 100 >>),
     Running(Channel(0, 176, << 10, 64 >>)), Channel(0, 192, << 5 >>),
     NoteOn(0, 0, 60, 100), SysEx(10, << 144, 60, 100, 247 >>),
     Channel(0, 208, << 40 >>), Running(Channel(5, 208, << 41 >>)),
     Channel(0, 224, << 0, 64 >>), Channel(0, 160, << 60, 30 >>),
     NoteOff(81, 0, 60), Text(0, 130), End >>
RepeatTrack ==
  << NoteOn(0, 0, 60, 100), NoteOff(96, 0, 60), NoteOn(0, 0, 60, 90),
     NoteOff(96, 0, 60), End >>
HeldTrack == << NoteOn(0, 0, 60, 100), End >>

Tracks ==
  { PlainTrack, RunningTrack, UnmatchedTrack, OverlapTrack, RitardTrack,
    TempoTrack, FramedTrack, RepeatTrack, HeldTrack }

TrackLists == { << a >> : a \in Tracks }
              \cup { << a, b >> : a \in Tracks, b \in Tracks }

\* decodeMidi from its first statement to the sort.
RECURSIVE decodeRun(_)
decodeRun(d) ==
  CASE d.pc = "header" -> decodeRun(decodeHeader(d))
    [] d.pc = "track" -> decodeRun(decodeTrack(d))
    [] d.pc = "event" -> decodeRun(decodeEvent(d))
    [] OTHER -> d

InitTracks ==
  /\ FreshEngine(FALSE)
  /\ input \in TrackLists
  /\ call = decodeEntry(FileOf(input))

NextTracks ==
  \/ DecodeHeader
  \/ DecodeTrack
  \/ DecodeEvent
  \/ DecodeReturn

SpecTracks == InitTracks /\ [][NextTracks]_vars




\* ------------------------------------- specification: a voice's envelopes
\* The automation events of one voice: those of its carrier gain
\* (outputNode.gain) and of its modulator gain, in the order of the calls
\* that scheduled them.  The clock is ctx.currentTime, in steps.
MaxAttack == 2
MaxClock == 3

AutomationEvent(kind, time, by) == [kind |-> kind, time |-> time, by |-> by]

\* AudioParam.cancelScheduledValues(t): the events at t and later go.
cancelScheduledValues(events, t) == SelectSeq(events, LAMBDA e : e.time < t)

\* createFMVoice at time v.now: the carrier envelope and the modulator
\* envelope.
createFMVoice(v, preset) ==
  LET t == v.now
  IN  [v EXCEPT
         !.pc = "sounding",
         !.carrierGain =
            << AutomationEvent("setValueAtTime", t, "playNote"),
               AutomationEvent("linearRampToValueAtTime",
                               t + preset.attackTime, "playNote"),
               AutomationEvent("setTargetAtTime", t + preset.attackTime,
                               "playNote") >>,
         !.modulatorGain =
            << AutomationEvent("setValueAtTime", t, "playNote"),
               AutomationEvent("setTargetAtTime", t + preset.attackTime,
                               "playNote") >>]

\* The loop body of stopNote on the voice's gain at time v.now.
stopNoteFade(v, silent) ==
  LET t == v.now
  IN  [v EXCEPT
         !.pc = "released",
         !.stoppedAt = t,
         !.carrierGain =
            Append(cancelScheduledValues(v.carrierGain, t),
                   AutomationEvent(IF silent THEN "setValueAtTime"
                                   ELSE "setTargetAtTime", t, "stopNote"))]

\* The loop body of stopAllNotes on the voice's gain at time v.now; the
\* ramps end after 0.7 and 1.0 of the release time, one and two steps on.
stopAllNotesFade(v, silent) ==
  LET t == v.now
      kept == cancelScheduledValues(v.carrierGain, t)
  IN  [v EXCEPT
         !.pc = "released",
         !.stoppedAt = t,
         !.carrierGain =
            IF silent
            THEN Append(kept, AutomationEvent("setValueAtTime", t,
                                              "stopAllNotes"))
            ELSE kept \o
                 << AutomationEvent("setValueAtTime", t, "stopAllNotes"),
                    AutomationEvent("exponentialRampToValueAtTime", t + 1,
                                    "stopAllNotes"),
                    AutomationEvent("linearRampToValueAtTime", t + 2,
                                    "stopAllNotes") >>]

VoiceAt(pc) == call.fn = "voice" /\ call.pc = pc

CreateFMVoice == VoiceAt("new") /\ Step(createFMVoice(call, input))

ClockTick ==
  /\ call.fn = "voice"
  /\ call.now < MaxClock
  /\ Step([call EXCEPT !.now = call.now + 1])

StopNoteFade ==
  /\ VoiceAt("sounding")
  /\ \E silent \in BOOLEAN : Step(stopNoteFade(call, silent))

StopAllNotesFade ==
  /\ VoiceAt("sounding")
  /\ \E silent \in BOOLEAN : Step(stopAllNotesFade(call, silent))

EnvelopePresets ==
  [sustainMode : {"PERCUSSIVE", "NATURAL"}, attackTime : 0..MaxAttack]

InitEnvelope ==
  /\ FreshEngine(FALSE)
  /\ input \in EnvelopePresets
  /\ call = [fn |-> "voice", pc |-> "new", now |-> 0, stoppedAt |-> 0,
             carrierGain |-> << >>, modulatorGain |-> << >>]

NextEnvelope ==
  \/ CreateFMVoice
  \/ ClockTick
  \/ StopNoteFade
  \/ StopAllNotesFade

SpecEnvelope == InitEnvelope /\ [][NextEnvelope]_vars


\* --------------------------------------- the combined pitch decision alone
\* detectPitchCombined after its three estimates: the results of
\* yinPitchDetection and autocorrelationPitch (frequency in cents above
\* 440 Hz, NoFrequency for a frequency that is not positive; confidence in
\* hundredths) and the frequency of the zero-crossing rate.
YIN_TRUST == 60
AC_TRUST == 50
ZCR_RANGE == 2400

PitchResult(frequency, confidence) ==
  [frequency |-> frequency, confidence |-> confidence]

\* zcrFreq > 0 && Math.abs(Math.log2(yinResult.frequency / zcrFreq)) < 2
zcrValidates(frequency, zcrFreq) ==
  /\ zcrFreq # NoFrequency
  /\ frequency # NoFrequency
  /\ frequency - zcrFreq < ZCR_RANGE
  /\ zcrFreq - frequency < ZCR_RANGE

\* Variant: a YIN result that the zero-crossing rate does not validate is
\* not returned at once.
detectPitchValidated(yinResult, acResult, zcrFreq) ==
  IF yinResult.confidence > YIN_TRUST
     /\ zcrValidates(yinResult.frequency, zcrFreq)
  THEN yinResult
  ELSE IF acResult.confidence > AC_TRUST THEN acResult
  ELSE IF yinResult.confidence > acResult.confidence THEN yinResult
  ELSE acResult

detectPitchCombined(yinResult, acResult, zcrFreq) ==
  IF yinResult.confidence > YIN_TRUST
  THEN IF zcrValidates(yinResult.frequency, zcrFreq)
       THEN yinResult
       ELSE yinResult
  ELSE IF acResult.confidence > AC_TRUST THEN acResult
  ELSE IF yinResult.confidence > acResult.confidence THEN yinResult
  ELSE acResult

Estimates ==
  { PitchResult(f, c) : f \in {NoFrequency, 0, 2500},
                        c \in {0, 41, 50, 51, 60, 61} }

CombineInputs ==
  [yinResult : Estimates, acResult : Estimates,
   zcrFreq : {NoFrequency, 0, 2500}]

combineEntry(p) == [fn |-> "detectPitchCombined", pc |-> "entry"]

combineReturn(p) ==
  [fn |-> "detectPitchCombined", pc |-> "returned",
   returned |-> detectPitchCombined(p.yinResult, p.acResult, p.zcrFreq)]

DetectPitchCombined ==
  /\ call.fn = "detectPitchCombined"
  /\ call.pc = "entry"
  /\ Step(combineReturn(input))

InitCombine ==
  /\ FreshEngine(FALSE)
  /\ input \in CombineInputs
  /\ call = combineEntry(input)

NextCombine == DetectPitchCombined

SpecCombine == InitCombine /\ [][NextCombine]_vars


\* ------------------------------------ variable-length quantities alone
\* A quantity is written by the encoder's writeVarLen into a track, after
\* the bytes before and in front of the bytes behind, and read back by the
\* decoder's delta-time loop.
MaxQuantity == 150
VARLEN_LIMIT == 2 ^ 28

Quantities ==
  (0 - 2)..MaxQuantity
  \cup { 16383, 16384, 2097151, 2097152, VARLEN_LIMIT - 1 }

VarLenInputs ==
  [value : Quantities,
   before : { << >>, << 0, 144, 60 >> },
   behind : { << >>, << 144, 60, 100 >>, << 60, 100 >> }]

varLenEntry(p) == [fn |-> "varLen", pc |-> "write"]

varLenWrite(p) ==
  [fn |-> "varLen", pc |-> "read", bytes |-> writeVarLen(p.value)]

varLenRead(c, p) ==
  LET data == p.before \o c.bytes \o p.behind
  IN  [fn |-> "varLen", pc |-> "returned", bytes |-> c.bytes,
       deltaTime |-> readVarLen(data, Len(p.before), Len(data), 0)]

WriteVarLen ==
  /\ call.fn = "varLen"
  /\ call.pc = "write"
  /\ Step(varLenWrite(input))

ReadVarLen ==
  /\ call.fn = "varLen"
  /\ call.pc = "read"
  /\ Step(varLenRead(call, input))

InitVarLen ==
  /\ FreshEngine(FALSE)
  /\ input \in VarLenInputs
  /\ call = varLenEntry(input)

NextVarLen ==
  \/ WriteVarLen
  \/ ReadVarLen

SpecVarLen == InitVarLen /\ [][NextVarLen]_vars



\* ------------------------------------------------------- note names alone
\* A note name is the text of a note and the text of an octave number:
\* note is an entry of NOTE_NAMES, or "undefined" where the array has no
\* entry at the index; octave is the number whose decimal text follows.
NOTE_NAMES ==
  << "C", "C#", "D", "D#", "E", "F", "F#", "G", "G#", "A", "A#", "B" >>

\* a % b of JavaScript: the sign of the result is that of a
Remainder(a, b) == IF a >= 0 THEN a % b ELSE 0 - ((0 - a) % b)

\* notes[index]
NoteAt(index) ==
  IF index \in 0..(Len(NOTE_NAMES) - 1) THEN NOTE_NAMES[index + 1]
  ELSE "undefined"

\* musicUtils.midiToNoteName
midiToNoteName(midi) ==
  LET octave == (midi - 12) \div 12
      noteIndex == Remainder(midi - 12, 12)
  IN  [note |-> NoteAt(noteIndex), octave |-> octave]

\* The name notesToEvents gives: NOTE_NAMES[midiNote % 12] and
\* Math.floor(midiNote / 12) - 1.
eventNoteName(midiNote) ==
  [note |-> NoteAt(Remainder(midiNote, 12)), octave |-> midiNote \div 12 - 1]

\* noteName.match(/^([A-G]#?)(\d+)$/): a note of the scale followed by
\* digits only.
MatchesName(noteName) ==
  /\ \E i \in 1..Len(NOTE_NAMES) : NOTE_NAMES[i] = noteName.note
  /\ noteName.octave >= 0

\* musicUtils.noteNameToMidi
noteNameToMidi(noteName) ==
  IF ~ MatchesName(noteName) THEN 60
  ELSE LET semitone == CHOOSE i \in 0..11 : NOTE_NAMES[i + 1] = noteName.note
       IN  noteName.octave * 12 + semitone + 12

MidiNumbers == 0..127

nameEntry(midi) == [fn |-> "noteName", pc |-> "entry"]

MidiToNoteName ==
  /\ call.fn = "noteName"
  /\ call.pc = "entry"
  /\ Step([fn |-> "noteName", pc |-> "named",
           noteName |-> midiToNoteName(input),
           eventName |-> eventNoteName(input)])

NoteNameToMidi ==
  /\ call.fn = "noteName"
  /\ call.pc = "named"
  /\ Step([fn |-> "noteName", pc |-> "returned",
           noteName |-> call.noteName, eventName |-> call.eventName,
           midi |-> noteNameToMidi(call.noteName)])

InitNames ==
  /\ FreshEngine(FALSE)
  /\ input \in MidiNumbers
  /\ call = nameEntry(input)

NextNames ==
  \/ MidiToNoteName
  \/ NoteNameToMidi

SpecNames == InitNames /\ [][NextNames]_vars




\* ================================================================ claims
IsPlayNote(f) ==
  /\ lastOp'.op = "playNote"
  /\ \E p \in PolyPresets : PlayNote(f, p, FALSE, "running", "none")
DistinctKeys(av) == \A i, j \in 1..Len(av) : av[i].freq = av[j].freq => i = j
Oldest(av) == av[1].freq

\* C1: the number of live voices (currentVoiceCount, and the entries of the
\* activeVoices registry) never exceeds maxPolyphony as configured at that
\* moment.
C1_VoiceCountWithinCeiling ==
  /\ currentVoiceCount <= maxPolyphony
  /\ Len(activeVoices) <= maxPolyphony

\* C2 as claimed: at most one live voice per frequency key, and every
\* playNote(f) called while a voice sounds at f force-stops that voice and
\* leaves exactly the new voice at f.
ForceStopped(f) ==
  /\ Len(VoicesAt(activeVoices', f)) = 1
  /\ activeVoices'[Len(activeVoices')].freq = f
  /\ ReleasedByStopNote(VoicesAt(activeVoices, f)[1], TRUE, FALSE) \in released'

C2_Original ==
  /\ []DistinctKeys(activeVoices)
  /\ [][\A f \in PolyFreqs :
          IsPlayNote(f) /\ f \in LiveFreqs(activeVoices) => ForceStopped(f)]_vars

\* C2 as amended: at most one live voice per frequency key; a playNote(f)
\* called while a voice sounds at f force-stops that voice and leaves exactly
\* the new voice at f, unless the call is dropped by the steal cooldown at
\* the ceiling: then the registry is unchanged and the old voice sounds on.
DroppedAtCeiling ==
  /\ currentVoiceCount >= maxPolyphony
  /\ ~StealReady(Eng)
  /\ activeVoices' = activeVoices
  /\ currentVoiceCount' = currentVoiceCount
  /\ released' = released

C2_OneVoicePerFrequency ==
  /\ []DistinctKeys(activeVoices)
  /\ [][\A f \in PolyFreqs :
          IsPlayNote(f) /\ f \in LiveFreqs(activeVoices)
            => IF currentVoiceCount >= maxPolyphony /\ ~StealReady(Eng)
               THEN DroppedAtCeiling
               ELSE ForceStopped(f)]_vars

C2_Witness ==
  /\ lastOp = [op |-> "playNote", result |-> "retriggered"]
  /\ Len(activeVoices) >= 2
  /\ DistinctKeys(activeVoices)

\* C8 as claimed: every playNote called with the voice count at the ceiling
\* steals exactly one voice, the oldest live one, and the new note becomes
\* live.
StoleOldest(f) ==
  /\ LiveFreqs(activeVoices') = (LiveFreqs(activeVoices) \ {Oldest(activeVoices)}) \cup {f}
  /\ currentVoiceCount' = currentVoiceCount
                            - (IF f \in LiveFreqs(Tail(activeVoices)) THEN 1 ELSE 0)
  /\ Tail(activeVoices) = << >> \/ f = Oldest(activeVoices)
       \/ Oldest(activeVoices) \notin LiveFreqs(activeVoices')
  /\ activeVoices'[Len(activeVoices')].freq = f
  /\ sinceLastSteal' = 0

C8_Original ==
  [][\A f \in PolyFreqs :
       IsPlayNote(f) /\ currentVoiceCount >= maxPolyphony => StoleOldest(f)]_vars

\* C8 as amended: a playNote called on an initialised engine with the voice
\* count at the ceiling steals the oldest live voice and makes the new note
\* live when more than the cooldown has passed since the last steal;
\* otherwise the note is dropped and no voice is stolen.
C8_StealOldestOrDrop ==
  [][\A f \in PolyFreqs :
       IsPlayNote(f) /\ currentVoiceCount >= maxPolyphony
         => IF StealReady(Eng) THEN StoleOldest(f) ELSE DroppedAtCeiling]_vars

C8_Witness ==
  /\ lastOp = [op |-> "playNote", result |-> "stolen"]
  /\ currentVoiceCount = maxPolyphony
  /\ sinceLastSteal = 0

\* C3 as claimed: stopNote(f) on a sounding note takes the voice out of the
\* registry, lowers the voice count by exactly one, and has the oscillators
\* stopped once the preset's releaseTime has elapsed.
IsStopNote(f) == lastOp'.op = "stopNote" /\ StopNote(f, FALSE, FALSE)

Unregistered(f) ==
  /\ f \notin LiveFreqs(activeVoices')
  /\ currentVoiceCount' = currentVoiceCount - 1

C3_Original ==
  [][\A f \in Freqs :
       IsStopNote(f) /\ f \in LiveFreqs(activeVoices)
         => /\ Unregistered(f)
            /\ \E r \in released' :
                 /\ r.via = "stopNote"
                 /\ r.stopAt <= VoicesAt(activeVoices, f)[1].preset.releaseTime]_vars

\* C3 as amended: stopNote(f) on a sounding note takes the voice out of the
\* registry and lowers the voice count by exactly one at once, and schedules
\* the stop of the oscillators 20 ms after the release, which is the
\* preset's releaseTime held between 10 ms and 300 ms.
C3_StopNoteReleases ==
  [][\A f \in Freqs :
       IsStopNote(f) /\ f \in LiveFreqs(activeVoices)
         => /\ Unregistered(f)
            /\ \E r \in released' :
                 /\ r.via = "stopNote"
                 /\ r.conn
                 /\ LET R == VoicesAt(activeVoices, f)[1].preset.releaseTime
                    IN r.stopAt = (IF R < 10000 THEN 10000
                                   ELSE IF R > 300000 THEN 300000 ELSE R) + 20000]_vars

C3_Witness ==
  /\ lastOp = [op |-> "stopNote", result |-> "released"]
  /\ activeVoices = << >>
  /\ currentVoiceCount = 0
  /\ \E r \in released : r.via = "stopNote" /\ r.stopAt = 120000

\* C4: every voice released by stopAllNotes has its oscillators stopped
\* within the release window; so, until they have stopped, the audio clock
\* that brings their scheduled stop is running.
C4_StopAllStopsOscillators ==
  \A r \in released :
    r.via = "stopAllNotes" /\ r.phase # "stopped" => ctx = "running"

\* C5: whenever stopNote, stopAllNotes, stopRecording or
\* setMidiPlaybackMode(false) leaves a running engine with no live voice, no
\* recording and playback mode off, the idle timer that will suspend the
\* audio device is pending.
Idle ==
  /\ currentVoiceCount = 0
  /\ activeVoices = << >>
  /\ ~isRecording
  /\ ~isMidiPlaybackActive

C5_IdleArmsSuspension ==
  [][(/\ lastOp'.op \in {"stopNote", "stopAllNotes", "stopRecording", "midiOff"}
      /\ ~Idle
      /\ ctx' = "running"
      /\ Idle')
       => autoSuspendTimeout' /\ suspendTimers' # << >>]_vars

\* C6 as claimed: the idle timer suspends the audio device only when no voice
\* is live and playback mode is off; after a playNote or a
\* setMidiPlaybackMode(true) no suspension is pending; at most one idle timer
\* is pending.
SuspendsOnlyIdle ==
  ctx = "running" /\ ctx' = "suspended"
    => /\ lastOp'.op = "autoSuspend"
       /\ activeVoices = << >>
       /\ currentVoiceCount = 0
       /\ ~isMidiPlaybackActive

PendingSuspension ==
  /\ suspendTimers # << >>
  /\ currentVoiceCount = 0
  /\ ~isRecording
  /\ ~isMidiPlaybackActive

C6_Original ==
  /\ [](Len(suspendTimers) <= 1)
  /\ [][SuspendsOnlyIdle]_vars
  /\ [][lastOp'.op \in {"playNote", "midiOn"} => ~PendingSuspension']_vars

\* C6 as amended: the idle timer suspends the audio device only when no voice
\* is live and playback mode is off; after a setMidiPlaybackMode(true), or a
\* playNote on an engine that has its audio context, no suspension is
\* pending; at most one idle timer is pending.  (A playNote on an engine
\* without a context only starts init and leaves a pending timer alone.)
C6_IdleSuspensionSafe ==
  /\ [](Len(suspendTimers) <= 1)
  /\ [][SuspendsOnlyIdle]_vars
  /\ [][(\/ lastOp'.op = "midiOn"
         \/ lastOp'.op = "playNote" /\ ctx # "null") => ~PendingSuspension']_vars

C6_Witness ==
  /\ lastOp = [op |-> "playNote", result |-> "played"]
  /\ activeVoices # << >>
  /\ suspendTimers = << >>
  /\ ~autoSuspendTimeout

\* C7: whenever a capture recorder is active, isRecording is true and the
\* audio device is not suspended.
C7_NoSuspendWhileRecording ==
  mediaRecorder = "recording" => isRecording /\ ctx # "suspended"

\* C9: a live PERCUSSIVE voice that the caller never stops eventually stops
\* being a live voice.
PercussiveLive ==
  \E i \in 1..Len(activeVoices) :
    activeVoices[i].preset.sustainMode = "PERCUSSIVE"

C9_PercussiveSelfTerminates == PercussiveLive ~> ~PercussiveLive

\* C10: on an engine whose init failed part of the way (a context without
\* the complete graph) no voice is registered or counted, no call throws,
\* and an init call is not skipped.
PartlyBuilt == ctx # "null" /\ ~mediaDest

C10_FailedInitIsInert ==
  PartlyBuilt
    => /\ activeVoices = << >>
       /\ currentVoiceCount = 0
       /\ lastOp.result \notin {"threw", "initSkipped"}

\* ------------------------------------------------------------------ C11
Exported == call.fn = "exportToMidiFile" /\ call.pc = "returned"

Decoded == call.fn = "decodeMidi" /\ call.pc = "returned"

RECURSIVE Gcd(_, _)
Gcd(a, b) == IF b = 0 THEN a ELSE Gcd(b, a % b)

Abs(x) == IF x < 0 THEN 0 - x ELSE x

\* The ratio in lowest terms.
Lowest(r) ==
  LET g == Gcd(Abs(r.num), r.den)
  IN  IF g = 0 THEN r ELSE Ratio(r.num \div g, r.den \div g)

\* Two times differ by no more than one tick of the exported file
\* (EXPORT_TEMPO / TICKS_PER_QUARTER microseconds).
WithinOneTick(a, b) ==
  LET x == Lowest(a)
      y == Lowest(b)
  IN  /\ x.den # 0
      /\ y.den # 0
      /\ Abs(x.num * y.den - y.num * x.den) * TICKS_PER_QUARTER
           <= EXPORT_TEMPO * x.den * y.den

SameTuple(e, d) ==
  /\ d.midi = e.midi
  /\ WithinOneTick(d.startTime, e.startTime)
  /\ WithinOneTick(d.duration, e.duration)

\* The decoded events are the given ones, one for one.
SameTuples(given, decoded) ==
  /\ Len(decoded) = Len(given)
  /\ \E f \in [1..Len(given) -> 1..Len(given)] :
       /\ \A i, j \in 1..Len(given) : f[i] = f[j] => i = j
       /\ \A i \in 1..Len(given) : SameTuple(given[i], decoded[f[i]])

\* Pitches in [0,127], velocities in [0,1], positive durations.
ValidNotes(L) ==
  \A i \in 1..Len(L) :
    /\ L[i].midi \in 0..127
    /\ L[i].velocity.num >= 0
    /\ L[i].velocity.num <= L[i].velocity.den
    /\ L[i].duration.num > 0

Separable(L) ==
  /\ \A i \in 1..Len(L) :
       ~RatioLess(L[i].duration, Micros(MIN_DECODED_DURATION_US))
  /\ \A i, j \in 1..Len(L) :
       (i < j /\ L[i].midi = L[j].midi) =>
          ~RatioLess(L[j].startTime,
                     RatioSum(L[i].startTime, L[i].duration))

RoundTrips ==
  /\ call.pc # "catch"
  /\ (Decoded /\ ValidNotes(input) /\ Separable(input) /\ input # << >>) =>
        /\ call.returned.kind = "decoded"
        /\ SameTuples(input, call.returned.events)

C12_DecoderReturns ==
  /\ <>Decoded
  /\ [](Decoded =>
          /\ call.returned.events # << >>
          /\ call.returned.kind = "demo" => call.returned.bpm = 120)

\* ------------------------------------------------------------------ C13
\* The header of a file that has the magic and all fourteen header bytes.
HasHeader(data) ==
  /\ Len(data) >= 14
  /\ SubSeq(data, 1, 4) = << 77, 84, 104, 100 >>

\* A time division of 0 or with the high bit set (SMPTE), a format that is
\* none of 0, 1, 2, or a track count of 0.
InvalidHeader(data) ==
  \/ getUint16(data, 12) = 0
  \/ getUint16(data, 12) >= 32768
  \/ getUint16(data, 8) > 2
  \/ getUint16(data, 10) = 0

\* C13: a file with the right magic and an invalid header field decodes to
\* the fallback melody.
C13_HeaderFieldsValidated ==
  (Decoded /\ HasHeader(input) /\ InvalidHeader(input)) =>
     call.returned.kind = "demo"

\* ------------------------------------------------------------------ C20
\* Velocity in [0,1], pitch in [0,127], a finite start that is not
\* negative, a finite positive duration.
InRange(e) ==
  /\ e.velocity.num >= 0
  /\ e.velocity.num <= e.velocity.den
  /\ e.midi \in 0..127
  /\ e.startTime.den > 0
  /\ e.startTime.num >= 0
  /\ e.duration.den > 0
  /\ e.duration.num > 0

\* C20: every note event decodeMidi returns is in range, whatever the data
\* bytes of the file; stated for the files whose header fields are valid.
C20_DecodedEventsInRange ==
  (Decoded /\ HasHeader(input) /\ ~InvalidHeader(input)) =>
    \A i \in 1..Len(call.returned.events) : InRange(call.returned.events[i])

\* ------------------------------------------------------------------ C14
\* The input events whose pitch is p.
WithPitch(L, p) == { i \in 1..Len(L) : L[i].midi = p }

\* The events of the given type and pitch.
OfKind(events, type, p) ==
  { i \in 1..Len(events) : events[i].type = type /\ events[i].note = p }

\* One note-on and one note-off per input event with a pitch in [0,127],
\* none for the others; the track begins with the tempo event.
CollectedAll ==
  /\ \A p \in 0..127 :
       /\ Cardinality(OfKind(call'.midiEvents, "on", p))
            = Cardinality(WithPitch(input, p))
       /\ Cardinality(OfKind(call'.midiEvents, "off", p))
            = Cardinality(WithPitch(input, p))
  /\ \A i \in 1..Len(call'.midiEvents) : call'.midiEvents[i].note \in 0..127
  /\ call'.trackData = << 0, 255, 81, 3, 7, 161, 32 >>

\* What one turn of the loop appended: a variable-length delta of one to
\* four bytes (continuation bit on all but the last), the status of the
\* event written, its pitch and a velocity, both below 0x80; the tick
\* count does not decrease.
WroteEvent ==
  LET n == Len(call.trackData)
      chunk == SubSeq(call'.trackData, n + 1, Len(call'.trackData))
      k == Len(chunk) - 3
      event == Head(call.midiEvents)
  IN  /\ SubSeq(call'.trackData, 1, n) = call.trackData
      /\ k \in 1..4
      /\ \A j \in 1..(k - 1) : chunk[j] >= 128
      /\ chunk[k] < 128
      /\ chunk[k + 1] = IF event.type = "on" THEN 144 ELSE 128
      /\ chunk[k + 2] = event.note
      /\ chunk[k + 3] \in 0..127
      /\ event.type = "on" => chunk[k + 3] > 0
      /\ call'.lastTime >= call.lastTime
      /\ call'.midiEvents = Tail(call.midiEvents)

\* The file: the header chunk (length 6, format 0, one track, 480 ticks
\* per quarter), one track chunk whose declared length is the number of
\* bytes after it, holding the track data and the end-of-track marker.
WroteFile ==
  LET bytes == call'.midiBytes
      n == Len(call.trackData)
  IN  /\ Len(bytes) = 22 + n + 4
      /\ SubSeq(bytes, 1, 14)
           = << 77, 84, 104, 100, 0, 0, 0, 6, 0, 0, 0, 1, 1, 224 >>
      /\ SubSeq(bytes, 15, 18) = << 77, 84, 114, 107 >>
      /\ getUint32(bytes, 18) = Len(bytes) - 22
      /\ SubSeq(bytes, 23, 22 + n) = call.trackData
      /\ SubSeq(bytes, 23 + n, 26 + n) = << 0, 255, 47, 0 >>
      /\ \A i \in 1..Len(bytes) : bytes[i] \in 0..255

ExportsWellFormed ==
  /\ (Exporting("collect") /\ call'.pc = "write") => CollectedAll
  /\ (Exporting("write") /\ call'.pc = "write") => WroteEvent
  /\ (Exporting("write") /\ call'.pc = "returned") => WroteFile

Segmented == call.fn = "convert" /\ call.pc \in {"finally", "resolved"} /\ ~ call.thrown

Mergeable(a, b) ==
  /\ a.midiNote = b.midiNote
  /\ ~ AtLeast(b.startTime - (a.startTime + a.duration), MERGE_GAP)

Clean(notes) ==
  /\ \A i \in 1..Len(notes) : AtLeast(notes[i].duration, CLEAN_MIN_LENGTH)
  /\ \A i \in 1..(Len(notes) - 1) : ~ Mergeable(notes[i], notes[i + 1])

C15_CleanupIdempotent ==
  Segmented =>
    /\ cleanupNotes(cleanupNotes(call.notes)) = cleanupNotes(call.notes)
    /\ Clean(cleanupNotes(call.notes))

\* ---------------------------------------------------------------- C16
\* C16: the events convert returns are in the order of their start times,
\* and a decodable signal in which no frame is both loud enough and pitched
\* with enough confidence (or which is shorter than a frame) makes convert
\* resolve with an empty list of events: nothing is thrown and the demo
\* melody is not substituted.
InOrder(events) ==
  \A i \in 1..Len(events) : \A j \in i..Len(events) :
     ~ RatioLess(events[j].startTime, events[i].startTime)

NothingToDetect(file) ==
  \A frame \in 0..((file.length - FRAME_SIZE) \div HOP_SIZE - 1) :
     LET a == FrameAnalysis(file, frame)
     IN  \/ a.rms < MIN_RMS
         \/ a.frequency = NoFrequency
         \/ a.confidence < MIN_CONFIDENCE

C16_SortedAndEmptyIsValid ==
  call.fn = "convert" =>
    /\ call.pc = "resolved" => InOrder(call.events)
    /\ input.decodable => ~ call.thrown /\ call.pc # "rejected"
    /\ call.pc = "resolved" /\ NothingToDetect(input) =>
         /\ call.events = << >>
         /\ call.bpm = DEFAULT_BPM
         /\ \A v \in DemoVelocities : call.events # getDemoSong(v).events

\* A resolved conversion of several notes, and one of a signal with loud
\* frames and nothing to detect.
C16_Witness ==
  /\ Converting("resolved")
  /\ \/ Len(call.events) >= 2
     \/ /\ NothingToDetect(input)
        /\ \E frame \in 0..(call.totalFrames - 1) :
              FrameAnalysis(input, frame).rms >= MIN_RMS

\* ---------------------------------------------------------------- C17
\* C17: a failure inside convert (audio that cannot be decoded) does not
\* reject the promise convert returns, and whenever convert has finished the
\* audio context it opened is closed.
C17_FailureIsNoNotes ==
  call.fn = "convert" =>
    /\ call.pc # "rejected"
    /\ call.pc \in {"resolved", "rejected"} => call.audioContext = "closed"

\* ---------------------------------------------------------------- C18
\* C18: the clip of 440 Hz for 1.0 s, silence for 0.2 s and 880 Hz for
\* 1.0 s is transcribed to exactly two events, MIDI 69 and then MIDI 81,
\* each between 0.95 s and 1.05 s long.
AboutOneSecond(duration) ==
  /\ duration.den = SAMPLE_RATE
  /\ AtLeast(duration.num, 95)
  /\ ~ LongerThan(duration.num, 105)

IsClip(file) == file.length = Clip.length /\ file.stretches = Clip.stretches

C18_ClipGivesTwoNotes ==
  Converting("resolved") /\ IsClip(input) =>
    /\ Len(call.events) = 2
    /\ call.events[1].midi = 69
    /\ call.events[2].midi = 81
    /\ \A i \in 1..2 : AboutOneSecond(call.events[i].duration)

\* ---------------------------------------------------------------- C19
\* C19: frequencyToMidi inverts midiToFreq: for every MIDI number m from 0
\* to 127, frequencyToMidi(midiToFreq(m)) = m, and every frequency less than
\* a quarter tone (50 cents) above or below midiToFreq(m) is mapped to m.
QUARTER_TONE == CENTS_PER_SEMITONE \div 2

DroppedInCooldown ==
  /\ activeVoices' = activeVoices
  /\ currentVoiceCount' = currentVoiceCount
  /\ released' = released
  /\ sinceLastSteal' = sinceLastSteal
  /\ lastOp'.result = "dropped"

StoleAfterCooldown ==
  /\ ReleasedByStopNote(activeVoices[1], TRUE, FALSE) \in released'
  /\ Len(VoicesAt(activeVoices', Oldest(activeVoices))) <= 1
  /\ \A i \in 1..Len(activeVoices') : activeVoices'[i] # activeVoices[1]
                                         \/ i = Len(activeVoices')
  /\ sinceLastSteal' = 0
  /\ lastOp'.result \in {"stolen", "stolenRetriggered"}

C21_StealCooldown ==
  [][\A f \in PolyFreqs :
       IsPlayNote(f) /\ currentVoiceCount >= maxPolyphony
         => IF sinceLastSteal <= STEAL_COOLDOWN
            THEN DroppedInCooldown
            ELSE StoleAfterCooldown]_vars

\* A note has been dropped at the ceiling, 50 ms after a steal.
C21_Witness ==
  /\ lastOp = [op |-> "playNote", result |-> "dropped"]
  /\ currentVoiceCount >= maxPolyphony
  /\ sinceLastSteal = STEAL_COOLDOWN

\* ------------------------------------------------------------------ C22
\* C22: the nodes of a voice released by stopNote are disconnected only
\* when its release fade has completed, also when the voice joined a
\* cleanup batch scheduled by an earlier stopNote.
C22_DisconnectAfterFade ==
  \A r \in released :
    r.via = "stopNote" /\ ~r.conn => r.phase # "fading"

\* ------------------------------------------------------------------ C23
\* C23: a playNote(f) called while a voice is live at f stops no live voice
\* at another frequency: the set of live frequencies and the voice count are
\* the same after the call.
C23_RetriggerKeepsOthers ==
  [][\A f \in PolyFreqs :
       IsPlayNote(f) /\ f \in LiveFreqs(activeVoices)
         => /\ LiveFreqs(activeVoices') = LiveFreqs(activeVoices)
            /\ currentVoiceCount' = currentVoiceCount]_vars

\* ------------------------------------------------------------------ C24
\* C24: after every operation currentVoiceCount is the number of voices in
\* the registry, a registry entry holds one voice, and the count is not
\* negative.
C24_CountMatchesRegistry ==
  /\ currentVoiceCount = Len(activeVoices)
  /\ \A f \in LiveFreqs(activeVoices) : Len(VoicesAt(activeVoices, f)) = 1
  /\ currentVoiceCount >= 0

\* ------------------------------------------------------------------ C30
\* C30: when startRecording has returned false the engine is not recording
\* (isRecording is false), and stopRecording returns null whenever no
\* recorder is recording.
C30_FailedStartNotRecording ==
  /\ lastOp = [op |-> "startRecording", result |-> "false"] => ~isRecording
  /\ lastOp.op = "stopRecording" /\ mediaRecorder # "inactive"
       => lastOp.result = "null"

\* ------------------------------------------------------------------ C25
\* The notes of a track by the pairing rule: a note-on waits for the next
\* note-off of its channel and pitch; a note-off with no note-on waiting is
\* dropped; what still waits at the end of the track is dropped.
KeyOf(e) == << e.status % 16, e.data[1] >>

RECURSIVE PairedFrom(_, _, _)
PairedFrom(evs, tick, waiting) ==
  IF evs = << >> THEN << >>
  ELSE
    LET e == Head(evs)
        now == tick + e.delta
        mine == { i \in 1..Len(waiting) : waiting[i].key = KeyOf(e) }
        first == CHOOSE i \in mine : \A j \in mine : i <= j
    IN  IF e.kind = "on"
        THEN PairedFrom(Tail(evs), now,
               Append(waiting, [key |-> KeyOf(e), tick |-> now,
                                velocity |-> e.data[2]]))
        ELSE IF e.kind = "off" /\ mine # {}
        THEN << [midi |-> e.data[1], tick |-> waiting[first].tick,
                 velocity |-> waiting[first].velocity] >>
             \o PairedFrom(Tail(evs), now,
                  SelectSeq([i \in 1..Len(waiting) |->
                               IF i = first THEN [key |-> << >>]
                               ELSE waiting[i]],
                            LAMBDA w : w.key # << >>))
        ELSE PairedFrom(Tail(evs), now, waiting)

RECURSIVE PairedNotes(_)
PairedNotes(tracks) ==
  IF tracks = << >> THEN << >>
  ELSE PairedFrom(Head(tracks), 0, << >>) \o PairedNotes(Tail(tracks))

SameBag(s, t) ==
  /\ Len(s) = Len(t)
  /\ \A i \in 1..Len(s) :
       Cardinality({ j \in 1..Len(s) : s[j] = s[i] })
         = Cardinality({ j \in 1..Len(t) : t[j] = s[i] })

HasTempo(tracks) ==
  \E k \in 1..Len(tracks) :
    \E i \in 1..Len(tracks[k]) : tracks[k][i].kind = "tempo"

\* C25: note-ons and note-offs are paired within a track: every pair gives
\* one note event with the note-on's tick and velocity, an unmatched
\* note-off gives none, notes still waiting do not pass to the next track,
\* and no note-on that has a matching note-off is lost.  (The ticks are
\* compared in files that keep the default tempo.)
C25_NotePairing ==
  Decoding("sort") =>
    LET paired == PairedNotes(input)
    IN  /\ SameBag([i \in 1..Len(call.events) |->
                      << call.events[i].midi, call.events[i].velocity >>],
                   [i \in 1..Len(paired) |->
                      << paired[i].midi, Ratio(paired[i].velocity, 127) >>])
        /\ ~HasTempo(input) =>
             SameBag([i \in 1..Len(call.events) |->
                        << call.events[i].midi, call.events[i].startTime >>],
                     [i \in 1..Len(paired) |->
                        << paired[i].midi,
                           Ratio(paired[i].tick * DEFAULT_TEMPO, DIVISION) >>])

\* ------------------------------------------------------------------ C26
\* The tick of the first tempo change of a file; Infinity without one.
RECURSIVE FirstTempoIn(_, _)
FirstTempoIn(evs, tick) ==
  IF evs = << >> THEN Infinity
  ELSE IF Head(evs).kind = "tempo" THEN tick + Head(evs).delta
  ELSE FirstTempoIn(Tail(evs), tick + Head(evs).delta)

FirstTempoChange(tracks) ==
  LET ticks == { FirstTempoIn(tracks[k], 0) : k \in 1..Len(tracks) }
  IN  CHOOSE t \in ticks : \A u \in ticks : t <= u

\* The tempo of the last tempo event read; the default without one.
RECURSIVE LastTempoIn(_, _)
LastTempoIn(evs, tempo) ==
  IF evs = << >> THEN tempo
  ELSE LET e == Head(evs)
       IN  LastTempoIn(Tail(evs),
             IF e.kind = "tempo"
             THEN (e.data[3] * 256 + e.data[4]) * 256 + e.data[5]
             ELSE tempo)

RECURSIVE LastTempo(_, _)
LastTempo(tracks, tempo) ==
  IF tracks = << >> THEN tempo
  ELSE LastTempo(Tail(tracks), LastTempoIn(Head(tracks), tempo))

\* C26: a tempo change alters the timing of later ticks only: a note whose
\* note-on comes before every tempo change of the file starts at its tick
\* under the default tempo; and the bpm returned is 60000000 / tempo,
\* rounded, for the last tempo read.
C26_TempoTiming ==
  Decoding("sort") =>
    LET paired == PairedNotes(input)
        change == FirstTempoChange(input)
    IN  /\ call.bpm = RoundDiv(MICROS_PER_MINUTE, LastTempo(input, DEFAULT_TEMPO))
        /\ \A i \in 1..Len(call.events) :
             \E j \in 1..Len(paired) :
               /\ paired[j].midi = call.events[i].midi
               /\ paired[j].tick < change =>
                    call.events[i].startTime
                      = Ratio(paired[j].tick * DEFAULT_TEMPO, DIVISION)

\* ------------------------------------------------------------------ C27
\* Where the events of a track start, counted from the start of its body;
\* the end of the body is the last of them.
RECURSIVE Boundaries(_, _)
Boundaries(evs, at) ==
  IF evs = << >> THEN {at}
  ELSE {at} \cup Boundaries(Tail(evs), at + Len(EventBytes(Head(evs))))

RECURSIVE BodyStart(_, _)
BodyStart(tracks, k) ==
  IF k = 1 THEN 22
  ELSE BodyStart(tracks, k - 1) + Len(TrackBytes(tracks[k - 1])) + 8

\* The track without its events other than notes and tempo changes, the
\* events kept staying at their ticks.
RECURSIVE NotesOnly(_, _)
NotesOnly(evs, carried) ==
  IF evs = << >> THEN << >>
  ELSE LET e == Head(evs)
       IN  IF e.kind = "other" /\ e # End
           THEN NotesOnly(Tail(evs), carried + e.delta)
           ELSE << [e EXCEPT !.delta = carried + e.delta] >>
                \o NotesOnly(Tail(evs), 0)

\* C27: in a well-formed track every delta time is read where an event
\* starts (a meta or system-exclusive event is skipped by its length, a
\* channel event by two data bytes, or one for 0xCn and 0xDn, also under
\* running status), the events that are not notes neither add nor remove a
\* note, and a track is read up to its declared end.
C27_EventFraming ==
  /\ Decoding("event") =>
       call.offset - BodyStart(input, call.track + 1)
         \in Boundaries(input[call.track + 1], 0)
  /\ Decoding("track") /\ call.track >= 1 =>
       call.offset = BodyStart(input, call.track)
                       + Len(TrackBytes(input[call.track]))
  /\ Decoding("sort") =>
       call.events =
         decodeRun(decodeEntry(FileOf(
           [k \in 1..Len(input) |-> NotesOnly(input[k], 0)]))).events

\* The track with events of every kind around a note has been decoded.
C27_Witness ==
  /\ Decoding("sort")
  /\ input = << FramedTrack >>
  /\ Len(call.events) = 1

\* ------------------------------------------------------------------ C28
Frame(k) == FrameAnalysis(input, k)
Silent(k) == Frame(k).rms < MIN_RMS
TimeOf(k) == k * HOP_SIZE

\* Frame k ends a run of more than MAX_SILENCE silent frames.
SilentRun(k) ==
  k >= MAX_SILENCE /\ \A j \in (k - MAX_SILENCE)..k : Silent(j)

\* C28: silence closes the open note only at a frame that ends a run of
\* more than MAX_SILENCE (5) silent frames, so a shorter run inside a note
\* neither closes nor splits it; the note closed lasts from its startTime to
\* the time of the closing frame and is kept only if that is more than
\* 0.02 s; the open note, the last pitch and the median buffer are reset.
C28_SilenceClosing ==
  [][DetectFrame /\ call.currentNote # NoNote /\ Silent(call.frame)
       => IF SilentRun(call.frame)
          THEN LET duration == TimeOf(call.frame) - call.currentNote.startTime
               IN  /\ call'.currentNote = NoNote
                   /\ call'.lastMidiNote = 0 - 1
                   /\ call'.pitchBuffer = << >>
                   /\ call'.notes =
                        IF 100 * duration > SILENCE_MIN_LENGTH * SAMPLE_RATE
                        THEN Append(call.notes,
                               [call.currentNote EXCEPT !.duration = duration])
                        ELSE call.notes
          ELSE /\ call'.currentNote = call.currentNote
               /\ call'.lastMidiNote = call.lastMidiNote
               /\ call'.pitchBuffer = call.pitchBuffer
               /\ call'.notes = call.notes]_vars

\* The tone with a gap of five silent frames has been closed, as one note,
\* by the silence after it.
C28_Witness ==
  /\ Converting("frame")
  /\ input.stretches = GapAudio.stretches
  /\ call.silenceCount = MAX_SILENCE + 1
  /\ call.currentNote = NoNote
  /\ Len(call.notes) = 1
  /\ call.notes[1].duration = 30 * HOP_SIZE

\* ------------------------------------------------------------------ C29
\* Math.max(50, Math.min(127, Math.round(rms * 2000))), rms in thousandths
VelocityOf(rms) ==
  LET v == IF 2 * rms < FULL_VELOCITY THEN 2 * rms ELSE FULL_VELOCITY
  IN  IF v > FLOOR_VELOCITY THEN v ELSE FLOOR_VELOCITY

\* C29: at a frame that is not silent, is pitched with confidence of at
\* least MIN_CONFIDENCE and has its median-filtered note in 21..108, the
\* open note is extended (pitch and startTime kept, velocity the greater of
\* its own and the frame's) when the median is within a semitone of its
\* pitch; otherwise the open note is closed at the frame's time and a note
\* of the median pitch is opened at that time.  A frame below the confidence
\* or with its median outside the range opens, closes and re-pitches nothing.
C29_PitchTracking ==
  [][DetectFrame /\ ~ Silent(call.frame)
       => LET a == Frame(call.frame)
              open == call.currentNote
              time == TimeOf(call.frame)
              median == getMedian(call'.pitchBuffer)
              tracked == /\ a.frequency # NoFrequency
                         /\ a.confidence >= MIN_CONFIDENCE
                         /\ median >= LOWEST_MIDI
                         /\ median <= HIGHEST_MIDI
          IN  IF ~ tracked
              THEN /\ call'.currentNote = open
                   /\ call'.notes = call.notes
                   /\ call'.lastMidiNote = call.lastMidiNote
              ELSE IF open # NoNote /\ Abs(median - open.midiNote) <= 1
              THEN /\ call'.currentNote =
                        [open EXCEPT !.velocity =
                           IF VelocityOf(a.rms) > open.velocity
                           THEN VelocityOf(a.rms) ELSE open.velocity]
                   /\ call'.notes = call.notes
              ELSE /\ call'.currentNote =
                        [midiNote |-> median, startTime |-> time,
                         duration |-> 0, velocity |-> VelocityOf(a.rms)]
                   /\ \/ call'.notes = call.notes
                      \/ /\ open # NoNote
                         /\ call'.notes =
                              Append(call.notes,
                                [open EXCEPT !.duration = time - open.startTime])]_vars

\* The rising tone: its first note, extended over the semitone step at the
\* greater velocity, has been closed where the median reached the third
\* pitch, and the note of that pitch is open.
C29_Witness ==
  /\ Converting("frame")
  /\ input.stretches = StepAudio.stretches
  /\ Len(call.notes) = 1
  /\ call.notes[1].midiNote = 60
  /\ call.notes[1].velocity = 120
  /\ call.notes[1].duration = 22 * HOP_SIZE
  /\ call.currentNote.midiNote = 64

\* ------------------------------------------------------------------ C31
\* The voices in pendingCleanup.
Pending == { r \in released : r.batch }

\* C31: a voice released by stopNote is in pendingCleanup until a sweep
\* disconnects it, and a sweep comes: pendingCleanup is emptied again and
\* again; a voice out of pendingCleanup that stopNote released is
\* disconnected; one sweep is under way exactly when cleanupScheduled is
\* set, and pendingCleanup is empty whenever it is not set.
C31_CleanupDrains ==
  /\ [](/\ cleanupScheduled <=> cleanupPhase # "idle"
        /\ ~cleanupScheduled => Pending = {}
        /\ \A r \in released : r.via = "stopNote" => (r.batch <=> r.conn))
  /\ [][lastOp'.op = "stopNote" /\ lastOp'.result = "released"
          => Pending' # {} /\ cleanupScheduled']_vars
  /\ (Pending # {}) ~> (Pending = {})

\* A sweep has disconnected a voice that is still fading while another
\* voice, released after the sweep, waits for the next one.
C31_Witness ==
  /\ cleanupScheduled
  /\ \E r \in released : r.via = "stopNote" /\ ~r.conn
  /\ Pending # {}

\* ------------------------------------------------------------------ C32
\* The events of an envelope are in the order of their times.
Monotonic(events) ==
  \A i, j \in 1..Len(events) : i <= j => events[i].time <= events[j].time

\* An event that playNote scheduled is due after the stop.
PendingFromPlayNote(events) ==
  \E i \in 1..Len(events) :
    events[i].by = "playNote" /\ events[i].time > call.stoppedAt

\* C32: the envelope changes of a voice are scheduled at non-decreasing
\* times, and once stopNote or stopAllNotes has stopped the voice no change
\* that playNote scheduled on its carrier gain or on its modulator depth is
\* still to come.
C32_StopCancelsPending ==
  call.fn = "voice" =>
    /\ Monotonic(call.carrierGain)
    /\ Monotonic(call.modulatorGain)
    /\ call.pc = "released" =>
         /\ ~ PendingFromPlayNote(call.carrierGain)
         /\ ~ PendingFromPlayNote(call.modulatorGain)

\* ------------------------------------------------------------------ C33
Combined == call.fn = "detectPitchCombined" /\ call.pc = "returned"

\* The one of the two results with the higher confidence, the
\* autocorrelation result when the confidences are equal.
MoreConfident(yinResult, acResult) ==
  IF yinResult.confidence > acResult.confidence THEN yinResult ELSE acResult

\* C33 as stated: the YIN result is returned when its confidence is above
\* 0.6 and the zero-crossing estimate is within two octaves of it, else the
\* autocorrelation result when its confidence is above 0.5, else the more
\* confident of the two.
C33_Original ==
  Combined =>
    call.returned =
      IF /\ input.yinResult.confidence > YIN_TRUST
         /\ input.zcrFreq # NoFrequency
         /\ input.yinResult.frequency # NoFrequency
         /\ Abs(input.yinResult.frequency - input.zcrFreq) < ZCR_RANGE
      THEN input.yinResult
      ELSE IF input.acResult.confidence > AC_TRUST THEN input.acResult
      ELSE MoreConfident(input.yinResult, input.acResult)

\* C33: the YIN result is returned when its confidence is above 0.6,
\* whatever the zero-crossing estimate; else the autocorrelation result
\* when its confidence is above 0.5; else the more confident of the two.
C33_CombinedDecision ==
  Combined =>
    call.returned =
      IF input.yinResult.confidence > YIN_TRUST THEN input.yinResult
      ELSE IF input.acResult.confidence > AC_TRUST THEN input.acResult
      ELSE MoreConfident(input.yinResult, input.acResult)

\* A confident YIN result that the zero-crossing estimate contradicts has
\* been returned although the autocorrelation result was confident too.
C33_Witness ==
  /\ Combined
  /\ input.yinResult = PitchResult(0, 61)
  /\ input.acResult = PitchResult(2500, 51)
  /\ input.zcrFreq = 2500
  /\ call.returned = input.yinResult

\* ------------------------------------------------------------------ C34
\* C34: the bytes writeVarLen writes for a quantity from 0 up to 2^28 - 1
\* are at most four, all but the last with the high bit set, and the
\* decoder's delta-time loop reads the quantity back from them and stops
\* behind the last of them; a negative quantity is written as 0.
C34_VarLenRoundTrip ==
  call.fn = "varLen" /\ call.pc = "returned" =>
    LET bytes == call.bytes
        n == Len(bytes)
    IN  /\ n >= 1 /\ n <= 4
        /\ \A i \in 1..n : bytes[i] \in 0..255 /\ (bytes[i] >= 128 <=> i < n)
        /\ ~ call.deltaTime.threw
        /\ call.deltaTime.offset = Len(input.before) + n
        /\ call.deltaTime.value = IF input.value < 0 THEN 0 ELSE input.value
        /\ input.value < 0 => bytes = << 0 >>

\* The largest quantity of four bytes has been written in front of a
\* status byte and read back.
C34_Witness ==
  /\ call.fn = "varLen"
  /\ call.pc = "returned"
  /\ input.value = VARLEN_LIMIT - 1
  /\ input.behind = << 144, 60, 100 >>
  /\ call.bytes = << 255, 255, 255, 127 >>
  /\ call.deltaTime.value = VARLEN_LIMIT - 1

\* ------------------------------------------------------------------ C35
\* The times of the events are counted in samples: e.startTime and
\* e.duration are ratios over SAMPLE_RATE.
StartOf(e) == e.startTime.num
EndOf(e) == e.startTime.num + e.duration.num

\* C35: in the list convert returns the start times increase strictly and
\* no note begins before the note in front of it has ended.
C35_Monophonic ==
  Converting("resolved") =>
    \A i \in 1..(Len(call.events) - 1) :
      /\ call.events[i].startTime.den = SAMPLE_RATE
      /\ call.events[i].duration.den = SAMPLE_RATE
      /\ StartOf(call.events[i]) < StartOf(call.events[i + 1])
      /\ EndOf(call.events[i]) <= StartOf(call.events[i + 1])

\* Three notes have been returned, the second beginning where the first
\* ends.
C35_Witness ==
  /\ Converting("resolved")
  /\ Len(call.events) = 3
  /\ EndOf(call.events[1]) = StartOf(call.events[2])
  /\ call.events[1].midi # call.events[2].midi

\* ------------------------------------------------------------------ C36
\* The detected notes that an event returned covers.
MergedInto(e) ==
  { i \in 1..Len(call.notes) :
      /\ call.notes[i].midiNote = e.midi
      /\ call.notes[i].startTime >= StartOf(e)
      /\ call.notes[i].startTime + call.notes[i].duration <= EndOf(e) }

\* C36: every note convert returns lasts 0.05 s or more, however it was
\* closed and whether merged or not; a note that results from a merge is
\* no shorter than any of the notes merged and has the greatest of their
\* velocities.
C36_NoiseRejected ==
  Converting("resolved") =>
    \A k \in 1..Len(call.events) :
      LET e == call.events[k]
      IN  /\ e.duration.den = SAMPLE_RATE
          /\ 100 * e.duration.num >= CLEAN_MIN_LENGTH * SAMPLE_RATE
          /\ MergedInto(e) # {}
          /\ \A i \in MergedInto(e) :
               /\ call.notes[i].duration <= e.duration.num
               /\ Ratio(call.notes[i].velocity, FULL_VELOCITY).num
                    <= e.velocity.num
          /\ \E i \in MergedInto(e) :
               e.velocity = Ratio(call.notes[i].velocity, FULL_VELOCITY)

\* Two detected notes of one pitch and different velocities, a short
\* silence apart, have been returned as one note.
C36_Witness ==
  /\ Converting("resolved")
  /\ Len(call.events) = 1
  /\ Cardinality(MergedInto(call.events[1])) = 2
  /\ call.notes[1].velocity # call.notes[2].velocity

\* ------------------------------------------------------------------ C39
\* C39: for every MIDI number from 0 to 127 the name decodeMidi attaches
\* (midiToNoteName) is a letter A-G, an optional '#' and an octave number,
\* noteNameToMidi turns it back into the number, and it is the name
\* notesToEvents gives to the same number.
C39_NoteNaming ==
  call.fn = "noteName" /\ call.pc = "returned" =>
    /\ \E i \in 1..Len(NOTE_NAMES) : call.noteName.note = NOTE_NAMES[i]
    /\ call.midi = input
    /\ call.noteName = call.eventName
\* ------------------------------------------------------------------ C40
\* C40: once init has built the engine, the low-pass filter's cutoff is
\* 4000 Hz exactly when getSoftMode() is true and 20000 Hz exactly when it
\* is false, whatever init and setSoftMode calls came before; a soft mode
\* switched on before init is in effect after it.
C40_SoftModeInEffect ==
  mediaDest /\ softModeFilter # << >> =>
    /\ softModeFilter = << SOFT_CUTOFF >> <=> getSoftMode(Eng)
    /\ softModeFilter = << FULL_CUTOFF >> <=> ~getSoftMode(Eng)
\* ------------------------------------------------------------------ C37
Completed == call.fn = "convert" /\ call.pc \in {"resolved", "rejected"}

\* floor((samples - frameSize) / hopSize), and no frame of a shorter signal.
FramesOf(file) ==
  IF file.length < FRAME_SIZE THEN 0
  ELSE (file.length - FRAME_SIZE) \div HOP_SIZE

\* C37: the frame loop yields before it processes its first frame and never
\* processes more than FRAMES_PER_CHUNK frames between two yields, whatever
\* the length of the signal; every conversion comes to an end, and the
\* analysis of a decoded signal ends after floor((samples - frameSize) /
\* hopSize) frames, none for a signal shorter than a frame.
C37_CooperativeYielding ==
  /\ [](call.fn = "convert" =>
          /\ call.frame >= 1 => call.yields >= 1
          /\ call.sinceYield <= FRAMES_PER_CHUNK
          /\ call.sinceYield <= call.frame
          /\ call.frame <= FramesOf(input)
          /\ call.pc \in {"finally", "resolved"} /\ ~ call.thrown =>
               call.frame = FramesOf(input))
  /\ <>Completed

C37_Witness ==
  /\ Completed /\ ~ call.thrown
  /\ call.frame = 2 * FRAMES_PER_CHUNK + 1
  /\ call.yields = 3
  /\ call.sinceYield = 1

\* ------------------------------------------------------------------ C38
Reported(i) == call.progress[i]

\* C38: over a convert call that succeeds the values given to onProgress
\* never decrease and lie between 0 and 100, those given during the frame
\* analysis lie between 20 and 90, the last one is 100, and none is given
\* once the call has completed.
C38_ProgressMonotonic ==
  /\ [](call.fn = "convert" /\ ~ call.thrown =>
          /\ \A i \in 1..Len(call.progress) :
               /\ Reported(i).value >= 0 /\ Reported(i).value <= 100
               /\ i > 1 => Reported(i - 1).value <= Reported(i).value
               /\ Reported(i).by = "detectNotesChunked" =>
                    Reported(i).value >= 20 /\ Reported(i).value <= 90
          /\ call.pc = "resolved" =>
               Reported(Len(call.progress)).value = 100)
  /\ [][Completed => call'.progress = call.progress]_vars

C38_Witness ==
  /\ call.fn = "convert" /\ call.pc = "resolved"
  /\ \E i \in 1..Len(call.progress) :
       Reported(i).by = "detectNotesChunked" /\ Reported(i).value > 50

====
